---- MODULE Spec2Model ----
(***************************************************************************)
(* Debt manager: banks, loan transactions drawn against them, payments     *)
(* made toward those loans, and the reports computed over the three        *)
(* tables.  The store is the three tables with their serial id counters.   *)
(*                                                                         *)
(* The server runs the handlers of several requests at once.  A handler    *)
(* gives way at each `await` of a store access and no handler opens a      *)
(* transaction, so an action of the model is one store access of one       *)
(* request together with the code that follows it up to the next access:   *)
(* its checks, in the order of the code, and either the next access or     *)
(* the end of the call.  calls holds the requests that are between two     *)
(* accesses, with the local variables they carry over; last is the         *)
(* outcome of the call that ended most recently.                           *)
(*                                                                         *)
(* Amounts are whole currency units (the numeric(15,2) columns hold them   *)
(* exactly and toString/parseFloat round-trip them).  A timestamp is a     *)
(* calendar date and the milliseconds since its midnight, [year, month,    *)
(* day, ms], in the server's local zone.                                   *)
(* created_at is the instant of the insertion; updated_at, which every     *)
(* insert and update writes and nothing reads, is not a column of the      *)
(* modelled rows.                                                          *)
(***************************************************************************)
EXTENDS Integers, FiniteSets, Sequences, TLC

VARIABLES banks, loans, payments, nextBankId, nextLoanId, nextPaymentId, last, calls

vars == <<banks, loans, payments, nextBankId, nextLoanId, nextPaymentId, last, calls>>

(***************************************************************************)
(* Bounds of the model.                                                    *)
(***************************************************************************)
MaxBanks == 2
MaxLoans == 2
MaxPayments == 2
MaxRows == 5
MaxDay == 2
MaxAmount == 2
MaxLimit == 3
MaxMonth == 2
MaxCalls == 2

(***************************************************************************)
(* schema.ts                                                               *)
(***************************************************************************)
LoanTypes == {"KARTU_KREDIT", "PAYLATER", "KTA", "KUR"}

\* a nullable integer column holding no value
NULL == 0

OK == "ok"

\* the refine() of createBankInputSchema
createBankInputSchema(input) ==
    IF input.jenis_pinjaman = "KARTU_KREDIT"
    THEN input.tanggal_cetak_billing # NULL
    ELSE input.tanggal_cetak_billing = NULL

(***************************************************************************)
(* Helpers for partial-update requests: a request is a record holding      *)
(* exactly the fields that were supplied (a field that is absent is        *)
(* `undefined` in the code).                                               *)
(***************************************************************************)
Has(input, f) == f \in DOMAIN input

Field(f, v) == [x \in {f} |-> v]

Nothing == [x \in {} |-> 0]

Opt(f, S) == {Nothing} \cup {Field(f, v) : v \in S}

Copy(input, f) == IF Has(input, f) THEN Field(f, input[f]) ELSE Nothing

\* the row with the fields of data written over it (UPDATE ... SET data)
Set(row, data) == [f \in DOMAIN row |-> IF f \in DOMAIN data THEN data[f] ELSE row[f]]

BankById(id) == {b \in banks : b.id = id}

LoanById(id) == {t \in loans : t.id = id}

PaymentById(id) == {p \in payments : p.id = id}

TheRow(S) == CHOOSE r \in S : TRUE

\* SUM(column): column is the function from the rows summed to their values
RECURSIVE SumValues(_)
SumValues(column) ==
    IF DOMAIN column = {} THEN 0
    ELSE LET r == CHOOSE x \in DOMAIN column : TRUE
         IN  column[r] + SumValues([x \in DOMAIN column \ {r} |-> column[x]])

\* Date.prototype.getDate(): the day of the month
getDate(date) == date.day

\* defaultNow() of created_at: the instant the row is inserted, from which
\* the instants of the row are counted
defaultNow == 0

\* .min(1).max(31) of tanggal_jatuh_tempo: the last day of the longest month
LastDay == 31

\* rows ever inserted; the model stops inserting at MaxRows
Inserted == (nextBankId - 1) + (nextLoanId - 1) + (nextPaymentId - 1)

(***************************************************************************)
(* Requests in flight.  A call is a handler between two of its store       *)
(* accesses: the request, the access it makes next (pc) and the local      *)
(* variables that hold what it has read so far.                            *)
(***************************************************************************)
Calls == 1..MaxCalls

Idle == [op |-> "none", input |-> Nothing, pc |-> "idle", locals |-> Nothing]

\* a request is taken by the first call that serves none
Free(c) == calls[c].pc = "idle" /\ \A d \in Calls : d < c => calls[d].pc # "idle"

\* the handler of call c returns or throws; n is the number it reports
ReturnCount(c, op, input, err, n) ==
    /\ last' = [op |-> op, input |-> input, err |-> err, n |-> n]
    /\ calls' = [calls EXCEPT ![c] = Idle]

Return(c, op, input, err) == ReturnCount(c, op, input, err, 0)

\* the handler of call c returns the report it has made
ReturnReport(c, op, input, report) ==
    /\ last' = [op |-> op, input |-> input, err |-> OK, n |-> 0, report |-> report]
    /\ calls' = [calls EXCEPT ![c] = Idle]

\* the handler of call c goes on to its next store access
Await(c, call) ==
    /\ calls' = [calls EXCEPT ![c] = call]
    /\ UNCHANGED last

\* `result[0]` of an UPDATE ... RETURNING that matched no row is undefined,
\* and reading the numeric column f of it throws
TypeError(f) == "Cannot read properties of undefined (reading '" \o f \o "')"

(***************************************************************************)
(* handlers/create_bank.ts: one store access                               *)
(***************************************************************************)
createBank(input) ==
    banks \cup {[id |-> nextBankId,
                 nama_bank |-> input.nama_bank,
                 limit_pinjaman |-> input.limit_pinjaman,
                 jenis_pinjaman |-> input.jenis_pinjaman,
                 tanggal_cetak_billing |-> input.tanggal_cetak_billing,
                 tanggal_jatuh_tempo |-> input.tanggal_jatuh_tempo,
                 created_at |-> defaultNow]}

\* the createBank route: the schema parses the input, then the handler inserts
CreateBank(input) ==
    /\ nextBankId <= MaxBanks
    /\ Inserted < MaxRows
    /\ IF createBankInputSchema(input)
       THEN /\ banks' = createBank(input)
            /\ nextBankId' = nextBankId + 1
            /\ last' = [op |-> "createBank", input |-> input, err |-> OK, n |-> 0]
       ELSE /\ UNCHANGED <<banks, nextBankId>>
            /\ last' = [op |-> "createBank", input |-> input, err |-> "validation", n |-> 0]
    /\ UNCHANGED <<loans, payments, nextLoanId, nextPaymentId, calls>>

(***************************************************************************)
(* handlers/update_bank.ts: two store accesses                             *)
(***************************************************************************)
BillingRequired == "Tanggal cetak billing harus diisi untuk jenis pinjaman Kartu Kredit"

BillingOnlyKK == "Tanggal cetak billing hanya diperlukan untuk Kartu Kredit"

\* updateBankBilling, but a change to another category leaves the billing day
updateBankBilling_KeepBilling(currentBank, input) ==
    IF Has(input, "jenis_pinjaman")
    THEN IF input.jenis_pinjaman = "KARTU_KREDIT"
         THEN IF ~Has(input, "tanggal_cetak_billing")
              THEN IF currentBank.jenis_pinjaman # "KARTU_KREDIT"
                   THEN [err |-> BillingRequired, data |-> Nothing]
                   ELSE [err |-> OK, data |-> Field("jenis_pinjaman", input.jenis_pinjaman)]
              ELSE IF input.tanggal_cetak_billing = NULL
                   THEN [err |-> BillingRequired, data |-> Nothing]
                   ELSE [err |-> OK,
                         data |-> Field("jenis_pinjaman", input.jenis_pinjaman)
                                  @@ Field("tanggal_cetak_billing", input.tanggal_cetak_billing)]
         ELSE [err |-> OK, data |-> Field("jenis_pinjaman", input.jenis_pinjaman)]
    ELSE IF Has(input, "tanggal_cetak_billing")
         THEN IF currentBank.jenis_pinjaman = "KARTU_KREDIT"
              THEN IF input.tanggal_cetak_billing = NULL
                   THEN [err |-> BillingRequired, data |-> Nothing]
                   ELSE [err |-> OK,
                         data |-> Field("tanggal_cetak_billing", input.tanggal_cetak_billing)]
              ELSE IF input.tanggal_cetak_billing # NULL
                   THEN [err |-> BillingOnlyKK, data |-> Nothing]
                   ELSE [err |-> OK, data |-> Field("tanggal_cetak_billing", NULL)]
         ELSE [err |-> OK, data |-> Nothing]

\* updateBankBilling, but a change to credit card never asks for a billing day
updateBankBilling_NoBillingRequired(currentBank, input) ==
    IF Has(input, "jenis_pinjaman")
    THEN IF input.jenis_pinjaman = "KARTU_KREDIT"
         THEN [err |-> OK,
               data |-> Field("jenis_pinjaman", input.jenis_pinjaman)
                        @@ Copy(input, "tanggal_cetak_billing")]
         ELSE [err |-> OK,
               data |-> Field("jenis_pinjaman", input.jenis_pinjaman)
                        @@ Field("tanggal_cetak_billing", NULL)]
    ELSE IF Has(input, "tanggal_cetak_billing")
         THEN IF currentBank.jenis_pinjaman = "KARTU_KREDIT"
              THEN IF input.tanggal_cetak_billing = NULL
                   THEN [err |-> BillingRequired, data |-> Nothing]
                   ELSE [err |-> OK,
                         data |-> Field("tanggal_cetak_billing", input.tanggal_cetak_billing)]
              ELSE IF input.tanggal_cetak_billing # NULL
                   THEN [err |-> BillingOnlyKK, data |-> Nothing]
                   ELSE [err |-> OK, data |-> Field("tanggal_cetak_billing", NULL)]
         ELSE [err |-> OK, data |-> Nothing]

\* lines 34-72: the category / billing-day part of updateData, or the error thrown
updateBankBilling(currentBank, input) ==
    IF Has(input, "jenis_pinjaman")
    THEN IF input.jenis_pinjaman = "KARTU_KREDIT"
         THEN IF ~Has(input, "tanggal_cetak_billing")
              THEN IF currentBank.jenis_pinjaman # "KARTU_KREDIT"
                   THEN [err |-> BillingRequired, data |-> Nothing]
                   ELSE [err |-> OK, data |-> Field("jenis_pinjaman", input.jenis_pinjaman)]
              ELSE IF input.tanggal_cetak_billing = NULL
                   THEN [err |-> BillingRequired, data |-> Nothing]
                   ELSE [err |-> OK,
                         data |-> Field("jenis_pinjaman", input.jenis_pinjaman)
                                  @@ Field("tanggal_cetak_billing", input.tanggal_cetak_billing)]
         ELSE [err |-> OK,
               data |-> Field("jenis_pinjaman", input.jenis_pinjaman)
                        @@ Field("tanggal_cetak_billing", NULL)]
    ELSE IF Has(input, "tanggal_cetak_billing")
         THEN IF currentBank.jenis_pinjaman = "KARTU_KREDIT"
              THEN IF input.tanggal_cetak_billing = NULL
                   THEN [err |-> BillingRequired, data |-> Nothing]
                   ELSE [err |-> OK,
                         data |-> Field("tanggal_cetak_billing", input.tanggal_cetak_billing)]
              ELSE IF input.tanggal_cetak_billing # NULL
                   THEN [err |-> BillingOnlyKK, data |-> Nothing]
                   ELSE [err |-> OK, data |-> Field("tanggal_cetak_billing", NULL)]
         ELSE [err |-> OK, data |-> Nothing]

\* lines 21-76: updateData, the fields that the UPDATE sets
updateBankData(currentBank, input) ==
    Copy(input, "nama_bank") @@ Copy(input, "limit_pinjaman")
    @@ updateBankBilling(currentBank, input).data @@ Copy(input, "tanggal_jatuh_tempo")

\* UpdateBank_Select, but a limit under the sum of the bank's transactions is
\* refused
UpdateBank_Select_LimitAboveDebt(c, input) ==
    /\ calls[c].pc = "idle"
    /\ IF BankById(input.id) = {}
       THEN Return(c, "updateBank", input, "Bank not found")
       ELSE LET currentBank == TheRow(BankById(input.id))
                debt == SumValues([t \in {x \in loans : x.bank_id = input.id} |->
                                      t.jumlah_transaksi])
            IN  IF updateBankBilling(currentBank, input).err # OK
                THEN Return(c, "updateBank", input,
                            updateBankBilling(currentBank, input).err)
                ELSE IF Has(input, "limit_pinjaman") /\ input.limit_pinjaman < debt
                THEN Return(c, "updateBank", input, "Limit below transactions")
                ELSE Await(c, [op |-> "updateBank", input |-> input, pc |-> "update",
                               locals |-> [updateData |->
                                              updateBankData(currentBank, input)]])
    /\ UNCHANGED <<banks, loans, payments, nextBankId, nextLoanId, nextPaymentId>>

\* lines 8-76: the bank is selected and updateData is built from the request
\* and the category of the bank that was read
UpdateBank_Select(c, input) ==
    /\ calls[c].pc = "idle"
    /\ IF BankById(input.id) = {}
       THEN Return(c, "updateBank", input, "Bank not found")
       ELSE LET currentBank == TheRow(BankById(input.id))
            IN  IF updateBankBilling(currentBank, input).err # OK
                THEN Return(c, "updateBank", input,
                            updateBankBilling(currentBank, input).err)
                ELSE Await(c, [op |-> "updateBank", input |-> input, pc |-> "update",
                               locals |-> [updateData |->
                                              updateBankData(currentBank, input)]])
    /\ UNCHANGED <<banks, loans, payments, nextBankId, nextLoanId, nextPaymentId>>

\* lines 78-89: updateData is set on the row that has the id now; when no
\* row has it the result is empty and reading its first row throws
UpdateBank_Update(c) ==
    LET call == calls[c]
        result == BankById(call.input.id)
    IN  /\ call.op = "updateBank" /\ call.pc = "update"
        /\ IF result = {}
           THEN /\ UNCHANGED banks
                /\ Return(c, "updateBank", call.input, TypeError("limit_pinjaman"))
           ELSE /\ banks' = (banks \ result)
                             \cup {Set(row, call.locals.updateData) : row \in result}
                /\ Return(c, "updateBank", call.input, OK)
        /\ UNCHANGED <<loans, payments, nextBankId, nextLoanId, nextPaymentId>>

(***************************************************************************)
(* handlers/delete_bank.ts: four store accesses                            *)
(***************************************************************************)
\* DeleteBank_SelectBank, but a missing bank is not an error
DeleteBank_SelectBank_MissingIsFine(c, bankId) ==
    /\ calls[c].pc = "idle"
    /\ Await(c, [op |-> "deleteBank", input |-> [id |-> bankId],
                 pc |-> "selectTransactions", locals |-> Nothing])
    /\ UNCHANGED <<banks, loans, payments, nextBankId, nextLoanId, nextPaymentId>>

\* lines 7-15: the bank is selected
DeleteBank_SelectBank(c, bankId) ==
    /\ calls[c].pc = "idle"
    /\ IF BankById(bankId) = {}
       THEN Return(c, "deleteBank", [id |-> bankId], "Bank not found")
       ELSE Await(c, [op |-> "deleteBank", input |-> [id |-> bankId],
                      pc |-> "selectTransactions", locals |-> Nothing])
    /\ UNCHANGED <<banks, loans, payments, nextBankId, nextLoanId, nextPaymentId>>

\* DeleteBank_SelectTransactions, but the payments are looked at in the place
\* of the transactions
DeleteBank_SelectTransactions_PaymentsFirst(c) ==
    LET call == calls[c]
        relatedPayments == {p \in payments : p.bank_id = call.input.id}
    IN  /\ call.op = "deleteBank" /\ call.pc = "selectTransactions"
        /\ IF Cardinality(relatedPayments) > 0
           THEN ReturnCount(c, "deleteBank", call.input, "related payments",
                            Cardinality(relatedPayments))
           ELSE Await(c, [call EXCEPT !.pc = "selectPayments"])
        /\ UNCHANGED <<banks, loans, payments, nextBankId, nextLoanId, nextPaymentId>>

\* lines 17-25: the loan transactions of the bank are selected
DeleteBank_SelectTransactions(c) ==
    LET call == calls[c]
        relatedTransactions == {t \in loans : t.bank_id = call.input.id}
    IN  /\ call.op = "deleteBank" /\ call.pc = "selectTransactions"
        /\ IF Cardinality(relatedTransactions) > 0
           THEN ReturnCount(c, "deleteBank", call.input, "related loan transactions",
                            Cardinality(relatedTransactions))
           ELSE Await(c, [call EXCEPT !.pc = "selectPayments"])
        /\ UNCHANGED <<banks, loans, payments, nextBankId, nextLoanId, nextPaymentId>>

\* DeleteBank_SelectPayments, but the payments of the bank are not looked at
DeleteBank_SelectPayments_TransactionsOnly(c) ==
    LET call == calls[c]
    IN  /\ call.op = "deleteBank" /\ call.pc = "selectPayments"
        /\ Await(c, [call EXCEPT !.pc = "delete"])
        /\ UNCHANGED <<banks, loans, payments, nextBankId, nextLoanId, nextPaymentId>>

\* lines 27-35: the payments of the bank are selected
DeleteBank_SelectPayments(c) ==
    LET call == calls[c]
        relatedPayments == {p \in payments : p.bank_id = call.input.id}
    IN  /\ call.op = "deleteBank" /\ call.pc = "selectPayments"
        /\ IF Cardinality(relatedPayments) > 0
           THEN ReturnCount(c, "deleteBank", call.input, "related payments",
                            Cardinality(relatedPayments))
           ELSE Await(c, [call EXCEPT !.pc = "delete"])
        /\ UNCHANGED <<banks, loans, payments, nextBankId, nextLoanId, nextPaymentId>>

\* lines 37-42: the bank is deleted; success whatever the delete found
DeleteBank_Delete(c) ==
    LET call == calls[c]
    IN  /\ call.op = "deleteBank" /\ call.pc = "delete"
        /\ banks' = banks \ BankById(call.input.id)
        /\ Return(c, "deleteBank", call.input, OK)
        /\ UNCHANGED <<loans, payments, nextBankId, nextLoanId, nextPaymentId>>

(***************************************************************************)
(* handlers/create_loan_transaction.ts: three store accesses               *)
(***************************************************************************)
\* the messages of the errors thrown
BillingNotConfigured == "Bank billing date not configured for Kartu Kredit"

BeforeBillingDate == "Kartu Kredit cicilan transaction must be after billing date"

LimitExceeded == "Transaction would exceed bank limit"

\* billingCycleCheck, but a day after the due day is not taken for the next cycle
billingCycleCheck_NoNextCycle(bankData, input) ==
    IF bankData.jenis_pinjaman = "KARTU_KREDIT" /\ input.is_cicilan
    THEN IF bankData.tanggal_cetak_billing = NULL
         THEN BillingNotConfigured
         ELSE IF getDate(input.tanggal_transaksi) <= bankData.tanggal_cetak_billing
              THEN BeforeBillingDate
              ELSE OK
    ELSE OK

\* lines 38-59: the error of the installment billing-cycle check, or OK
billingCycleCheck(bankData, input) ==
    IF bankData.jenis_pinjaman = "KARTU_KREDIT" /\ input.is_cicilan
    THEN IF bankData.tanggal_cetak_billing = NULL
         THEN BillingNotConfigured
         ELSE LET transactionDay == getDate(input.tanggal_transaksi)
                  billingDay == bankData.tanggal_cetak_billing
                  dueDay == bankData.tanggal_jatuh_tempo
              IN  IF transactionDay <= billingDay
                  THEN IF transactionDay > dueDay
                       THEN OK
                       ELSE BeforeBillingDate
                  ELSE OK
    ELSE OK

\* the sum of the bank's loan transactions, less what was paid back to the bank
currentTotalLoans_NetOfPayments(bankId) ==
    SumValues([t \in {x \in loans : x.bank_id = bankId} |-> t.jumlah_transaksi])
    - SumValues([p \in {x \in payments : x.bank_id = bankId} |-> p.jumlah_pembayaran])

\* lines 61-72: the sum of the bank's loan transactions
currentTotalLoans(bankId) ==
    SumValues([t \in {x \in loans : x.bank_id = bankId} |-> t.jumlah_transaksi])

\* the limit check, but a total equal to the limit is refused too
limitExceeded_AtLimit(bankData, input) ==
    currentTotalLoans(input.bank_id) + input.jumlah_transaksi >= bankData.limit_pinjaman

\* the limit check, but of the transactions already stored only
limitExceeded_StoredOnly(bankData, input) ==
    currentTotalLoans(input.bank_id) > bankData.limit_pinjaman

\* lines 74-79: the limit check
limitExceeded(bankData, input) ==
    LET newTotal == currentTotalLoans(input.bank_id) + input.jumlah_transaksi
        bankLimit == bankData.limit_pinjaman
    IN  newTotal > bankLimit

\* lines 82-91: the row that .values() inserts, with the id the serial gives
loanTransactionValues(input) ==
    [id |-> nextLoanId,
     bank_id |-> input.bank_id,
     tanggal_transaksi |-> input.tanggal_transaksi,
     keterangan_transaksi |-> input.keterangan_transaksi,
     jumlah_transaksi |-> input.jumlah_transaksi,
     is_cicilan |-> input.is_cicilan,
     created_at |-> defaultNow]

\* CreateLoanTransaction_SelectBank, but the limit is checked, against the
\* transactions stored at this access, before the billing cycle
CreateLoanTransaction_SelectBank_LimitFirst(c, input) ==
    /\ calls[c].pc = "idle"
    /\ IF BankById(input.bank_id) = {}
       THEN Return(c, "createLoanTransaction", input, "Bank not found")
       ELSE LET bankData == TheRow(BankById(input.bank_id))
            IN  IF limitExceeded(bankData, input)
                THEN Return(c, "createLoanTransaction", input, LimitExceeded)
                ELSE IF billingCycleCheck(bankData, input) # OK
                THEN Return(c, "createLoanTransaction", input,
                            billingCycleCheck(bankData, input))
                ELSE Await(c, [op |-> "createLoanTransaction", input |-> input,
                               pc |-> "selectTotal",
                               locals |-> [bankData |-> bankData]])
    /\ UNCHANGED <<banks, loans, payments, nextBankId, nextLoanId, nextPaymentId>>

\* lines 26-59: the bank is selected and the billing cycle of an installment
\* is checked
CreateLoanTransaction_SelectBank(c, input) ==
    /\ calls[c].pc = "idle"
    /\ IF BankById(input.bank_id) = {}
       THEN Return(c, "createLoanTransaction", input, "Bank not found")
       ELSE LET bankData == TheRow(BankById(input.bank_id))
            IN  IF billingCycleCheck(bankData, input) # OK
                THEN Return(c, "createLoanTransaction", input,
                            billingCycleCheck(bankData, input))
                ELSE Await(c, [op |-> "createLoanTransaction", input |-> input,
                               pc |-> "selectTotal",
                               locals |-> [bankData |-> bankData]])
    /\ UNCHANGED <<banks, loans, payments, nextBankId, nextLoanId, nextPaymentId>>

\* lines 61-79: the transactions of the bank are summed and the limit of the
\* bank that was selected is checked
CreateLoanTransaction_SelectTotal(c) ==
    LET call == calls[c]
    IN  /\ call.op = "createLoanTransaction" /\ call.pc = "selectTotal"
        /\ IF limitExceeded(call.locals.bankData, call.input)
           THEN Return(c, "createLoanTransaction", call.input, LimitExceeded)
           ELSE Await(c, [call EXCEPT
                             !.pc = "insert",
                             !.locals = [bankData |-> call.locals.bankData,
                                         currentTotalLoans |->
                                             currentTotalLoans(call.input.bank_id)]])
        /\ UNCHANGED <<banks, loans, payments, nextBankId, nextLoanId, nextPaymentId>>

\* CreateLoanTransaction_Insert, but the insert is refused when the bank is
\* no longer stored
CreateLoanTransaction_Insert_BankChecked(c) ==
    LET call == calls[c]
    IN  /\ call.op = "createLoanTransaction" /\ call.pc = "insert"
        /\ nextLoanId <= MaxLoans /\ Inserted < MaxRows
        /\ IF BankById(call.input.bank_id) = {}
           THEN /\ UNCHANGED <<loans, nextLoanId>>
                /\ Return(c, "createLoanTransaction", call.input, "Bank not found")
           ELSE /\ loans' = loans \cup {loanTransactionValues(call.input)}
                /\ nextLoanId' = nextLoanId + 1
                /\ Return(c, "createLoanTransaction", call.input, OK)
        /\ UNCHANGED <<banks, payments, nextBankId, nextPaymentId>>

\* lines 81-98: the transaction is inserted
CreateLoanTransaction_Insert(c) ==
    LET call == calls[c]
    IN  /\ call.op = "createLoanTransaction" /\ call.pc = "insert"
        /\ nextLoanId <= MaxLoans /\ Inserted < MaxRows
        /\ loans' = loans \cup {loanTransactionValues(call.input)}
        /\ nextLoanId' = nextLoanId + 1
        /\ Return(c, "createLoanTransaction", call.input, OK)
        /\ UNCHANGED <<banks, payments, nextBankId, nextPaymentId>>

(***************************************************************************)
(* handlers/update_loan_transaction.ts: two store accesses, three when the *)
(* request names a bank                                                    *)
(***************************************************************************)
\* the fields that the UPDATE sets
updateLoanTransactionData(input) ==
    Copy(input, "bank_id") @@ Copy(input, "tanggal_transaksi")
    @@ Copy(input, "keterangan_transaksi")
    @@ Copy(input, "jumlah_transaksi") @@ Copy(input, "is_cicilan")

\* the transaction is selected
UpdateLoanTransaction_Select(c, input) ==
    /\ calls[c].pc = "idle"
    /\ IF LoanById(input.id) = {}
       THEN Return(c, "updateLoanTransaction", input, "Loan transaction not found")
       ELSE Await(c, [op |-> "updateLoanTransaction", input |-> input,
                      pc |-> IF Has(input, "bank_id") THEN "selectBank" ELSE "update",
                      locals |-> Nothing])
    /\ UNCHANGED <<banks, loans, payments, nextBankId, nextLoanId, nextPaymentId>>

\* the bank that the request names is selected
UpdateLoanTransaction_SelectBank(c) ==
    LET call == calls[c]
    IN  /\ call.op = "updateLoanTransaction" /\ call.pc = "selectBank"
        /\ IF BankById(call.input.bank_id) = {}
           THEN Return(c, "updateLoanTransaction", call.input, "Bank not found")
           ELSE Await(c, [call EXCEPT !.pc = "update"])
        /\ UNCHANGED <<banks, loans, payments, nextBankId, nextLoanId, nextPaymentId>>

\* UpdateLoanTransaction_Update that fills a field left out of the request
\* with the default of the create schema
UpdateLoanTransaction_Update_DefaultsInstallment(c) ==
    LET call == calls[c]
        result == LoanById(call.input.id)
        updateData == updateLoanTransactionData(call.input) @@ Field("is_cicilan", FALSE)
    IN  /\ call.op = "updateLoanTransaction" /\ call.pc = "update"
        /\ IF result = {}
           THEN /\ UNCHANGED loans
                /\ Return(c, "updateLoanTransaction", call.input,
                          TypeError("jumlah_transaksi"))
           ELSE /\ loans' = (loans \ result) \cup {Set(row, updateData) : row \in result}
                /\ Return(c, "updateLoanTransaction", call.input, OK)
        /\ UNCHANGED <<banks, payments, nextBankId, nextLoanId, nextPaymentId>>

\* the fields of the request are set on the row that has the id now; when no
\* row has it the result is empty and reading its first row throws
UpdateLoanTransaction_Update(c) ==
    LET call == calls[c]
        result == LoanById(call.input.id)
        updateData == updateLoanTransactionData(call.input)
    IN  /\ call.op = "updateLoanTransaction" /\ call.pc = "update"
        /\ IF result = {}
           THEN /\ UNCHANGED loans
                /\ Return(c, "updateLoanTransaction", call.input,
                          TypeError("jumlah_transaksi"))
           ELSE /\ loans' = (loans \ result) \cup {Set(row, updateData) : row \in result}
                /\ Return(c, "updateLoanTransaction", call.input, OK)
        /\ UNCHANGED <<banks, payments, nextBankId, nextLoanId, nextPaymentId>>

(***************************************************************************)
(* handlers/delete_loan_transaction.ts: the handler is not among the       *)
(* sources; its tests and the specification give its behaviour: a missing  *)
(* id is an error, otherwise the transaction goes and with it every        *)
(* payment that references it.                                             *)
(***************************************************************************)
\* deleteLoanTransaction, but the payments of the transaction stay
deleteLoanTransaction_NoCascade(id) ==
    IF LoanById(id) = {}
    THEN [err |-> "Loan transaction not found", loans |-> loans, payments |-> payments]
    ELSE [err |-> OK, loans |-> loans \ LoanById(id), payments |-> payments]

deleteLoanTransaction(id) ==
    IF LoanById(id) = {}
    THEN [err |-> "Loan transaction not found", loans |-> loans, payments |-> payments]
    ELSE [err |-> OK,
          loans |-> loans \ LoanById(id),
          payments |-> {p \in payments : p.loan_transaction_id # id}]

DeleteLoanTransaction(id) ==
    LET r == deleteLoanTransaction(id)
    IN  /\ loans' = r.loans
        /\ payments' = r.payments
        /\ last' = [op |-> "deleteLoanTransaction", input |-> [id |-> id], err |-> r.err, n |-> 0]
        /\ UNCHANGED <<banks, nextBankId, nextLoanId, nextPaymentId, calls>>

(***************************************************************************)
(* handlers/create_payment.ts: three store accesses                        *)
(***************************************************************************)
\* the loan transactions with this id that belong to this bank
loanOfBank(loanTransactionId, bankId) ==
    {t \in loans : t.id = loanTransactionId /\ t.bank_id = bankId}

\* the row that .values() inserts, with the id the serial gives
paymentValues(input) ==
    [id |-> nextPaymentId,
     bank_id |-> input.bank_id,
     loan_transaction_id |-> input.loan_transaction_id,
     tanggal_pembayaran |-> input.tanggal_pembayaran,
     jumlah_pembayaran |-> input.jumlah_pembayaran,
     created_at |-> defaultNow]

\* the bank is selected
CreatePayment_SelectBank(c, input) ==
    /\ calls[c].pc = "idle"
    /\ IF BankById(input.bank_id) = {}
       THEN Return(c, "createPayment", input, "Bank does not exist")
       ELSE Await(c, [op |-> "createPayment", input |-> input, pc |-> "selectLoan",
                      locals |-> Nothing])
    /\ UNCHANGED <<banks, loans, payments, nextBankId, nextLoanId, nextPaymentId>>

\* CreatePayment_SelectLoan, but the loan transaction is looked up by its id
\* alone
CreatePayment_SelectLoan_AnyOwner(c) ==
    LET call == calls[c]
    IN  /\ call.op = "createPayment" /\ call.pc = "selectLoan"
        /\ IF LoanById(call.input.loan_transaction_id) = {}
           THEN Return(c, "createPayment", call.input,
                       "Loan transaction does not exist or does not belong to bank")
           ELSE Await(c, [call EXCEPT !.pc = "insert"])
        /\ UNCHANGED <<banks, loans, payments, nextBankId, nextLoanId, nextPaymentId>>

\* the loan transaction with the id and the bank of the request is selected
CreatePayment_SelectLoan(c) ==
    LET call == calls[c]
    IN  /\ call.op = "createPayment" /\ call.pc = "selectLoan"
        /\ IF loanOfBank(call.input.loan_transaction_id, call.input.bank_id) = {}
           THEN Return(c, "createPayment", call.input,
                       "Loan transaction does not exist or does not belong to bank")
           ELSE Await(c, [call EXCEPT !.pc = "insert"])
        /\ UNCHANGED <<banks, loans, payments, nextBankId, nextLoanId, nextPaymentId>>

\* the payment is inserted
CreatePayment_Insert(c) ==
    LET call == calls[c]
    IN  /\ call.op = "createPayment" /\ call.pc = "insert"
        /\ nextPaymentId <= MaxPayments /\ Inserted < MaxRows
        /\ payments' = payments \cup {paymentValues(call.input)}
        /\ nextPaymentId' = nextPaymentId + 1
        /\ Return(c, "createPayment", call.input, OK)
        /\ UNCHANGED <<banks, loans, nextBankId, nextLoanId>>

(***************************************************************************)
(* handlers/update_payment.ts: three store accesses, four when the request *)
(* names a bank                                                            *)
(***************************************************************************)
\* the fields that the UPDATE sets
updatePaymentValues(input) ==
    Copy(input, "bank_id") @@ Copy(input, "loan_transaction_id")
    @@ Copy(input, "tanggal_pembayaran") @@ Copy(input, "jumlah_pembayaran")

\* lines 8-18: the payment is selected
UpdatePayment_Select(c, input) ==
    /\ calls[c].pc = "idle"
    /\ IF PaymentById(input.id) = {}
       THEN Return(c, "updatePayment", input, "Payment not found")
       ELSE Await(c, [op |-> "updatePayment", input |-> input,
                      pc |-> IF Has(input, "bank_id") THEN "selectBank" ELSE "selectLoan",
                      locals |-> [existingPayment |-> TheRow(PaymentById(input.id))]])
    /\ UNCHANGED <<banks, loans, payments, nextBankId, nextLoanId, nextPaymentId>>

\* lines 20-30: the bank that the request names is selected
UpdatePayment_SelectBank(c) ==
    LET call == calls[c]
    IN  /\ call.op = "updatePayment" /\ call.pc = "selectBank"
        /\ IF BankById(call.input.bank_id) = {}
           THEN Return(c, "updatePayment", call.input, "Bank not found")
           ELSE Await(c, [call EXCEPT !.pc = "selectLoan"])
        /\ UNCHANGED <<banks, loans, payments, nextBankId, nextLoanId, nextPaymentId>>

\* UpdatePayment_SelectLoan, but the owner is checked against the bank of the
\* payment that was read
UpdatePayment_SelectLoan_StoredBank(c) ==
    LET call == calls[c]
        existingPayment == call.locals.existingPayment
        targetLoanTransactionId == IF Has(call.input, "loan_transaction_id")
                                   THEN call.input.loan_transaction_id
                                   ELSE existingPayment.loan_transaction_id
    IN  /\ call.op = "updatePayment" /\ call.pc = "selectLoan"
        /\ IF loanOfBank(targetLoanTransactionId, existingPayment.bank_id) = {}
           THEN Return(c, "updatePayment", call.input, "Loan transaction not found for bank")
           ELSE Await(c, [call EXCEPT !.pc = "update"])
        /\ UNCHANGED <<banks, loans, payments, nextBankId, nextLoanId, nextPaymentId>>

\* UpdatePayment_SelectLoan, but the new bank is written before the owner is
\* checked
UpdatePayment_SelectLoan_WriteThenCheck(c) ==
    LET call == calls[c]
        existingPayment == call.locals.existingPayment
        targetBankId == IF Has(call.input, "bank_id")
                        THEN call.input.bank_id ELSE existingPayment.bank_id
        targetLoanTransactionId == IF Has(call.input, "loan_transaction_id")
                                   THEN call.input.loan_transaction_id
                                   ELSE existingPayment.loan_transaction_id
    IN  /\ call.op = "updatePayment" /\ call.pc = "selectLoan"
        /\ payments' = {Set(p, IF p.id = call.input.id
                               THEN Copy(call.input, "bank_id") ELSE Nothing) :
                           p \in payments}
        /\ IF loanOfBank(targetLoanTransactionId, targetBankId) = {}
           THEN Return(c, "updatePayment", call.input, "Loan transaction not found for bank")
           ELSE Await(c, [call EXCEPT !.pc = "update"])
        /\ UNCHANGED <<banks, loans, nextBankId, nextLoanId, nextPaymentId>>

\* lines 32-48: the loan transaction of the target pair is selected: the
\* bank and the transaction of the request, or else those of the payment
\* that was read
UpdatePayment_SelectLoan(c) ==
    LET call == calls[c]
        existingPayment == call.locals.existingPayment
        targetBankId == IF Has(call.input, "bank_id")
                        THEN call.input.bank_id ELSE existingPayment.bank_id
        targetLoanTransactionId == IF Has(call.input, "loan_transaction_id")
                                   THEN call.input.loan_transaction_id
                                   ELSE existingPayment.loan_transaction_id
    IN  /\ call.op = "updatePayment" /\ call.pc = "selectLoan"
        /\ IF loanOfBank(targetLoanTransactionId, targetBankId) = {}
           THEN Return(c, "updatePayment", call.input, "Loan transaction not found for bank")
           ELSE Await(c, [call EXCEPT !.pc = "update"])
        /\ UNCHANGED <<banks, loans, payments, nextBankId, nextLoanId, nextPaymentId>>

\* lines 50-80: the fields of the request are set on the row that has the id
\* now; when no row has it the result is empty and reading its first row
\* throws
UpdatePayment_Update(c) ==
    LET call == calls[c]
        result == PaymentById(call.input.id)
        updateValues == updatePaymentValues(call.input)
    IN  /\ call.op = "updatePayment" /\ call.pc = "update"
        /\ IF result = {}
           THEN /\ UNCHANGED payments
                /\ Return(c, "updatePayment", call.input, TypeError("jumlah_pembayaran"))
           ELSE /\ payments' = (payments \ result)
                                \cup {Set(row, updateValues) : row \in result}
                /\ Return(c, "updatePayment", call.input, OK)
        /\ UNCHANGED <<banks, loans, nextBankId, nextLoanId, nextPaymentId>>

(***************************************************************************)
(* handlers/delete_payment.ts: no error; n is the number of rows deleted   *)
(* and the call returns success = (n > 0).                                 *)
(***************************************************************************)
\* deletePayment, but the rows deleted are not counted
deletePayment_NotCounted(paymentId) ==
    [rowCount |-> 1, payments |-> payments \ PaymentById(paymentId)]

deletePayment(paymentId) ==
    [rowCount |-> Cardinality(PaymentById(paymentId)),
     payments |-> payments \ PaymentById(paymentId)]

DeletePayment(paymentId) ==
    LET r == deletePayment(paymentId)
    IN  /\ payments' = r.payments
        /\ last' = [op |-> "deletePayment", input |-> [id |-> paymentId],
                    err |-> OK, n |-> r.rowCount]
        /\ UNCHANGED <<banks, loans, nextBankId, nextLoanId, nextPaymentId, calls>>


(***************************************************************************)
(* handlers/get_due_date_report.ts                                         *)
(***************************************************************************)
\* 1000 * 60 * 60 * 24: the milliseconds of a day
MsPerDay == 86400000

\* the milliseconds of an hour, by which a zone with daylight saving sets
\* its clocks forward or back
MsPerHour == 3600000

\* The zone of the server is [at, ms, by]: in the current month the local
\* clocks are set by `by` milliseconds (forward when positive, back when
\* negative, not at all when 0) on day `at`, `ms` milliseconds after its
\* midnight.  The local time of an instant is UTC plus the offset of the
\* zone, and the offset grows by `by` at the change: this is the growth of
\* the offset from the start of the month to the local instant (day, ms).
utcOffset(zone, day, ms) ==
    IF day > zone.at \/ (day = zone.at /\ ms >= zone.ms) THEN zone.by ELSE 0

\* today is `new Date()`: the day of the current month and the milliseconds
\* elapsed since local midnight.  dueDate is local midnight of day targetDay
\* of the current month (a day past the end of the month lands in the next
\* month, as many days later).  getTime() is the instant in UTC, the local
\* time less the offset of the zone, so the difference of the two instants
\* is the difference of the local times less the growth of the offset
\* between them.  Both branches of the code compute the same value.
\* diffTime is held as the whole days between the two local dates and the
\* remaining milliseconds, the product of a month of days and MsPerDay being
\* too large a number for the checker; Math.ceil of their sum is the whole
\* days plus Math.ceil of the rest, and Math.ceil is the negated floor of the
\* negation (-0 is 0).
calculateDaysUntilDue(targetDay, today, zone) ==
    LET currentDay == getDate(today)
        diffTime == [days |-> targetDay - currentDay,
                     ms |-> (0 - utcOffset(zone, targetDay, 0))
                            - (today.ms - utcOffset(zone, currentDay, today.ms))]
        diffDays == diffTime.days + (-((-diffTime.ms) \div MsPerDay))
    IN  diffDays

\* a side of a LEFT JOIN that matched no row: every column NULL
NoRow == [id |-> NULL, amount |-> NULL]

\* banks LEFT JOIN loan_transactions LEFT JOIN payments, both ON the bank's
\* id: the joined rows of one bank, as <<transaction, payment>> pairs
joinedRows(bankId) ==
    LET ts == {[id |-> t.id, amount |-> t.jumlah_transaksi] :
                  t \in {x \in loans : x.bank_id = bankId}}
        ps == {[id |-> p.id, amount |-> p.jumlah_pembayaran] :
                  p \in {x \in payments : x.bank_id = bankId}}
    IN  (IF ts = {} THEN {NoRow} ELSE ts) \X (IF ps = {} THEN {NoRow} ELSE ps)

loanColumn(row) == row[1].amount

paymentColumn(row) == row[2].amount

\* one row per group (per bank).  calculateDaysUntilDue is called from the
\* callback of results.map and reads the clock itself, once for every row:
\* clock[id] is the `new Date()` read for the row of bank id.
getDueDateReport(clock, zone) ==
    {LET totalLoans == SumValues([x \in joinedRows(b.id) |-> loanColumn(x)])
         totalPayments == SumValues([x \in joinedRows(b.id) |-> paymentColumn(x)])
     IN  [bank_id |-> b.id,
          bank_name |-> b.nama_bank,
          jenis_pinjaman |-> b.jenis_pinjaman,
          tanggal_jatuh_tempo |-> b.tanggal_jatuh_tempo,
          days_until_due |-> calculateDaysUntilDue(b.tanggal_jatuh_tempo, clock[b.id], zone),
          outstanding_amount |-> totalLoans - totalPayments] : b \in banks}

\* the rows due within `days` days that still owe something
getUpcomingDueDates(days, clock, zone) ==
    {report \in getDueDateReport(clock, zone) :
        /\ report.days_until_due >= 0
        /\ report.days_until_due <= days
        /\ report.outstanding_amount > 0}

\* the rows past their due day that still owe something
getOverdueDates(clock, zone) ==
    {report \in getDueDateReport(clock, zone) :
        /\ report.days_until_due < 0
        /\ report.outstanding_amount > 0}

(***************************************************************************)
(* handlers/get_monthly_report.ts                                          *)
(***************************************************************************)
\* the day of `new Date(year, month, 0)`: the last day of month `month`
DaysInMonth(year, month) ==
    IF month = 2
    THEN IF year % 4 = 0 /\ (year % 100 # 0 \/ year % 400 = 0) THEN 29 ELSE 28
    ELSE IF month \in {4, 6, 9, 11} THEN 30 ELSE 31

\* timestamp a >= timestamp b
gte(a, b) ==
    \/ a.year > b.year
    \/ a.year = b.year /\ a.month > b.month
    \/ a.year = b.year /\ a.month = b.month /\ a.day > b.day
    \/ a.year = b.year /\ a.month = b.month /\ a.day = b.day /\ a.ms >= b.ms

\* timestamp a <= timestamp b
lte(a, b) == gte(b, a)

\* line 11: the first instant of the month
startDate(input) == [year |-> input.year, month |-> input.month, day |-> 1, ms |-> 0]

\* endDate, but the midnight that begins the last day of the month
endDate_AtMidnight(input) ==
    [year |-> input.year, month |-> input.month,
     day |-> DaysInMonth(input.year, input.month), ms |-> 0]

\* line 12: the last millisecond of the last day of the month
endDate(input) ==
    [year |-> input.year, month |-> input.month,
     day |-> DaysInMonth(input.year, input.month), ms |-> MsPerDay - 1]

\* lines 15-27: COALESCE(SUM(jumlah_transaksi), 0) and COUNT(*) over the loan
\* transactions of the month, as the store holds them when it is asked
loanResults(input) ==
    LET rows == {t \in loans : /\ gte(t.tanggal_transaksi, startDate(input))
                               /\ lte(t.tanggal_transaksi, endDate(input))}
    IN  [total_amount |-> SumValues([t \in rows |-> t.jumlah_transaksi]),
         count |-> Cardinality(rows)]

\* lines 30-42: the same over the payments of the month
paymentResults(input) ==
    LET rows == {p \in payments : /\ gte(p.tanggal_pembayaran, startDate(input))
                                  /\ lte(p.tanggal_pembayaran, endDate(input))}
    IN  [total_amount |-> SumValues([p \in rows |-> p.jumlah_pembayaran]),
         count |-> Cardinality(rows)]

\* lines 8-27: the first store access, the select over the loan transactions
GetMonthlyReport_SelectLoans(c, input) ==
    /\ calls[c].pc = "idle"
    /\ Await(c, [op |-> "getMonthlyReport", input |-> input, pc |-> "selectPayments",
                 locals |-> [loanResults |-> loanResults(input)]])
    /\ UNCHANGED <<banks, loans, payments, nextBankId, nextLoanId, nextPaymentId>>

\* lines 29-61: the second store access, the select over the payments, and
\* the report made of the two results
GetMonthlyReport_SelectPayments(c) ==
    LET call == calls[c]
        year == call.input.year
        month == call.input.month
        totalLoans == call.locals.loanResults.total_amount
        transactionCount == call.locals.loanResults.count
        totalPayments == paymentResults(call.input).total_amount
        paymentCount == paymentResults(call.input).count
        netDebt == totalLoans - totalPayments
    IN  /\ call.op = "getMonthlyReport" /\ call.pc = "selectPayments"
        /\ ReturnReport(c, "getMonthlyReport", call.input,
                        [year |-> year,
                         month |-> month,
                         total_loans |-> totalLoans,
                         total_payments |-> totalPayments,
                         net_debt |-> netDebt,
                         transaction_count |-> transactionCount,
                         payment_count |-> paymentCount])
        /\ UNCHANGED <<banks, loans, payments, nextBankId, nextLoanId, nextPaymentId>>

(***************************************************************************)
(* handlers/get_loan_type_report.ts                                        *)
(***************************************************************************)
\* loanTypeEnum.options, but without the last category
loanTypeOptions_NoKur == <<"KARTU_KREDIT", "PAYLATER", "KTA">>

\* loanTypeEnum.options: the categories in the order of the enum
loanTypeOptions == <<"KARTU_KREDIT", "PAYLATER", "KTA", "KUR">>

\* loanSummary, but without the WHERE on the category of the bank
loanSummary_AnyCategory(input) ==
    LET rows == {row \in loans \X banks : row[1].bank_id = row[2].id}
    IN  [total_loans |-> IF rows = {} THEN NULL
                         ELSE SumValues([row \in rows |-> row[1].jumlah_transaksi]),
         transaction_count |-> Cardinality(rows)]

\* lines 9-17: sum() and count() over the loan transactions INNER JOINed
\* with their banks, WHERE the bank has the category; the sum of no rows is
\* null
loanSummary(input) ==
    LET rows == {row \in loans \X banks :
                    /\ row[1].bank_id = row[2].id
                    /\ row[2].jenis_pinjaman = input.jenis_pinjaman}
    IN  [total_loans |-> IF rows = {} THEN NULL
                         ELSE SumValues([row \in rows |-> row[1].jumlah_transaksi]),
         transaction_count |-> Cardinality(rows)]

\* lines 20-28: the same over the payments, joined ON their own bank_id
paymentSummary(input) ==
    LET rows == {row \in payments \X banks :
                    /\ row[1].bank_id = row[2].id
                    /\ row[2].jenis_pinjaman = input.jenis_pinjaman}
    IN  [total_payments |-> IF rows = {} THEN NULL
                            ELSE SumValues([row \in rows |-> row[1].jumlah_pembayaran]),
         payment_count |-> Cardinality(rows)]

\* lines 30-46: the report made of the results of the two selects
loanTypeReport(input, loanSummary0, paymentSummary0) ==
    LET totalLoans == IF loanSummary0.total_loans # NULL
                      THEN loanSummary0.total_loans ELSE 0
        transactionCount == loanSummary0.transaction_count
        totalPayments == IF paymentSummary0.total_payments # NULL
                         THEN paymentSummary0.total_payments ELSE 0
        paymentCount == paymentSummary0.payment_count
        outstandingAmount == totalLoans - totalPayments
    IN  [jenis_pinjaman |-> input.jenis_pinjaman,
         total_loans |-> totalLoans,
         total_payments |-> totalPayments,
         outstanding_amount |-> outstandingAmount,
         transaction_count |-> transactionCount,
         payment_count |-> paymentCount]

\* lines 8-17: the first store access of getLoanTypeReport
GetLoanTypeReport_SelectLoans(c, input) ==
    /\ calls[c].pc = "idle"
    /\ Await(c, [op |-> "getLoanTypeReport", input |-> input, pc |-> "selectPayments",
                 locals |-> [loanSummary |-> loanSummary(input)]])
    /\ UNCHANGED <<banks, loans, payments, nextBankId, nextLoanId, nextPaymentId>>

\* lines 19-46: the second store access, and the report
GetLoanTypeReport_SelectPayments(c) ==
    LET call == calls[c]
    IN  /\ call.op = "getLoanTypeReport" /\ call.pc = "selectPayments"
        /\ ReturnReport(c, "getLoanTypeReport", call.input,
                        loanTypeReport(call.input, call.locals.loanSummary,
                                       paymentSummary(call.input)))
        /\ UNCHANGED <<banks, loans, payments, nextBankId, nextLoanId, nextPaymentId>>

\* lines 56-63: Promise.all starts one getLoanTypeReport for each category.
\* Each of them makes its two selects in turn; the selects of different
\* categories are served in any order.  reports[i] is where the report of
\* category i stands: its first select is asked, its second select is asked
\* (the first has answered loanSummary), or it is done
getAllLoanTypeReports(c) ==
    IF calls[c].pc = "idle"
    THEN [i \in 1..Len(loanTypeOptions) |-> [pc |-> "selectLoans"]]
    ELSE calls[c].locals.reports

\* lines 9-17 for category i: a first select is served
GetAllLoanTypeReports_SelectLoans(c, i) ==
    LET reports == getAllLoanTypeReports(c)
        input == [jenis_pinjaman |-> loanTypeOptions[i]]
    IN  /\ calls[c].pc = "idle" \/ calls[c].op = "getAllLoanTypeReports"
        /\ i \in DOMAIN reports
        /\ reports[i].pc = "selectLoans"
        /\ Await(c, [op |-> "getAllLoanTypeReports", input |-> Nothing, pc |-> "selects",
                     locals |-> [reports |->
                                    [reports EXCEPT ![i] =
                                        [pc |-> "selectPayments",
                                         loanSummary |-> loanSummary(input)]]]])
        /\ UNCHANGED <<banks, loans, payments, nextBankId, nextLoanId, nextPaymentId>>

\* lines 20-46 for category i: a second select is served and the report of
\* the category is made; lines 59-65: when it was the last one, the reports
\* are returned in the order of the enum
GetAllLoanTypeReports_SelectPayments(c, i) ==
    LET call == calls[c]
        input == [jenis_pinjaman |-> loanTypeOptions[i]]
        reports == [call.locals.reports EXCEPT ![i] =
                       [pc |-> "done",
                        report |-> loanTypeReport(input, call.locals.reports[i].loanSummary,
                                                  paymentSummary(input))]]
    IN  /\ call.op = "getAllLoanTypeReports"
        /\ i \in DOMAIN call.locals.reports
        /\ call.locals.reports[i].pc = "selectPayments"
        /\ IF \A j \in DOMAIN reports : reports[j].pc = "done"
           THEN ReturnReport(c, "getAllLoanTypeReports", Nothing,
                             [j \in DOMAIN reports |-> reports[j].report])
           ELSE Await(c, [call EXCEPT !.locals = [reports |-> reports]])
        /\ UNCHANGED <<banks, loans, payments, nextBankId, nextLoanId, nextPaymentId>>


(***************************************************************************)
(* The routes.  A request of a route is taken by one of the calls cs with  *)
(* one of the inputs given, and the calls that are in flight make their    *)
(* next store access in any order.                                         *)
(***************************************************************************)
\* the call that takes the next request, when the calls are not told apart
FreeCall == {c \in Calls : Free(c)}

UpdateBank(cs, inputs) ==
    \/ \E c \in cs : \E input \in inputs : UpdateBank_Select(c, input)
    \/ \E c \in Calls : UpdateBank_Update(c)

DeleteBank(cs, bankIds) ==
    \/ \E c \in cs : \E bankId \in bankIds : DeleteBank_SelectBank(c, bankId)
    \/ \E c \in Calls : DeleteBank_SelectTransactions(c)
    \/ \E c \in Calls : DeleteBank_SelectPayments(c)
    \/ \E c \in Calls : DeleteBank_Delete(c)

CreateLoanTransaction(cs, inputs) ==
    \/ \E c \in cs : \E input \in inputs : CreateLoanTransaction_SelectBank(c, input)
    \/ \E c \in Calls : CreateLoanTransaction_SelectTotal(c)
    \/ \E c \in Calls : CreateLoanTransaction_Insert(c)

\* requests that name a bank
UpdateLoanTransaction(cs, inputs) ==
    \/ \E c \in cs : \E input \in inputs : UpdateLoanTransaction_Select(c, input)
    \/ \E c \in Calls : UpdateLoanTransaction_SelectBank(c)
    \/ \E c \in Calls : UpdateLoanTransaction_Update(c)

CreatePayment(cs, inputs) ==
    \/ \E c \in cs : \E input \in inputs : CreatePayment_SelectBank(c, input)
    \/ \E c \in Calls : CreatePayment_SelectLoan(c)
    \/ \E c \in Calls : CreatePayment_Insert(c)

\* requests that name a bank
UpdatePayment(cs, inputs) ==
    \/ \E c \in cs : \E input \in inputs : UpdatePayment_Select(c, input)
    \/ \E c \in Calls : UpdatePayment_SelectBank(c)
    \/ \E c \in Calls : UpdatePayment_SelectLoan(c)
    \/ \E c \in Calls : UpdatePayment_Update(c)

GetMonthlyReport(cs, inputs) ==
    \/ \E c \in cs : \E input \in inputs : GetMonthlyReport_SelectLoans(c, input)
    \/ \E c \in Calls : GetMonthlyReport_SelectPayments(c)

GetLoanTypeReport(cs, inputs) ==
    \/ \E c \in cs : \E input \in inputs : GetLoanTypeReport_SelectLoans(c, input)
    \/ \E c \in Calls : GetLoanTypeReport_SelectPayments(c)

\* a first select begins the request or belongs to one in flight
GetAllLoanTypeReports(cs) ==
    \/ \E c \in cs \cup {d \in Calls : calls[d].op = "getAllLoanTypeReports"} :
          \E i \in DOMAIN loanTypeOptions : GetAllLoanTypeReports_SelectLoans(c, i)
    \/ \E c \in Calls : \E i \in DOMAIN loanTypeOptions :
          GetAllLoanTypeReports_SelectPayments(c, i)

(***************************************************************************)
(* Requests                                                                *)
(***************************************************************************)
Days == 1..MaxDay

\* the values of `new Date()`: any day, at midnight, just after it or just
\* before the next one
Nows == [day : Days, ms : {0, 1, MsPerDay - 1}]

\* the readings of the clock for the rows of a report: any, the rows being
\* in no particular order
Clocks(nows) == [1..MaxBanks -> nows]

\* zones whose clocks are not changed in the current month, or are set an
\* hour forward or back at two in the morning of one of the days
Zones(days) == [at : days, ms : {2 * MsPerHour}, by : {0 - MsPerHour, 0, MsPerHour}]

\* a zone without daylight saving
Utc == [at |-> 1, ms |-> 2 * MsPerHour, by |-> 0]

Limits == 1..MaxLimit
Amounts == 1..MaxAmount
BankIds == 1..MaxBanks
LoanIds == 1..MaxLoans
PaymentIds == 1..MaxPayments

Dates(days) == [year : {2024}, month : {1}, day : days, ms : {0}]

CreateBankInputs(limits, types, billingDays, dueDays) ==
    [nama_bank : {"a"}, limit_pinjaman : limits, jenis_pinjaman : types,
     tanggal_cetak_billing : billingDays, tanggal_jatuh_tempo : dueDays]

CreateLoanInputs(bankIds, days, amounts, cicilan) ==
    [bank_id : bankIds, tanggal_transaksi : Dates(days), keterangan_transaksi : {"t"},
     jumlah_transaksi : amounts, is_cicilan : cicilan]

CreatePaymentInputs(bankIds, loanIds, amounts) ==
    [bank_id : bankIds, loan_transaction_id : loanIds, tanggal_pembayaran : Dates({1}),
     jumlah_pembayaran : amounts]

LoanUpdates(ids, bankIds, amounts) ==
    {Field("id", id) @@ b @@ a :
        id \in ids, b \in Opt("bank_id", bankIds), a \in Opt("jumlah_transaksi", amounts)}

PaymentUpdates(ids, bankIds, loanIds) ==
    {Field("id", id) @@ b @@ t :
        id \in ids, b \in Opt("bank_id", bankIds), t \in Opt("loan_transaction_id", loanIds)}

Init ==
    /\ banks = {}
    /\ loans = {}
    /\ payments = {}
    /\ nextBankId = 1
    /\ nextLoanId = 1
    /\ nextPaymentId = 1
    /\ last = [op |-> "none", input |-> Nothing, err |-> OK, n |-> 0]
    /\ calls = [c \in Calls |-> Idle]

(***************************************************************************)
(* Spec: every route that writes the ledger, the requests served at once.   *)
(***************************************************************************)
Next ==
    \/ \E input \in CreateBankInputs({MaxLimit}, {"KTA"}, {NULL}, {1}) : CreateBank(input)
    \/ UpdateBank(FreeCall, {Field("id", 1) @@ Field("nama_bank", "a")})
    \/ DeleteBank(FreeCall, BankIds)
    \/ CreateLoanTransaction(FreeCall, CreateLoanInputs({1}, {1}, {1}, {FALSE}))
    \/ UpdateLoanTransaction(FreeCall, LoanUpdates({1}, {MaxBanks}, {}))
    \/ \E id \in LoanIds : DeleteLoanTransaction(id)
    \/ CreatePayment(FreeCall, CreatePaymentInputs({1}, {1}, {1}))
    \/ UpdatePayment(FreeCall, PaymentUpdates({1}, {MaxBanks}, {}))
    \/ \E id \in PaymentIds : DeletePayment(id)

Spec == Init /\ [][Next]_vars

(***************************************************************************)
(* SpecSerial: every route that writes, each request served to its end     *)
(* before the next one is taken.                                           *)
(***************************************************************************)
\* no request is in flight
Serial == \A c \in Calls : calls[c].pc = "idle"

\* the call that takes the next request when no request is in flight
SerialCall == {c \in FreeCall : Serial}

NextSerial ==
    \/ \E input \in CreateBankInputs({MaxLimit}, {"KTA"}, {NULL}, {1}) :
          Serial /\ CreateBank(input)
    \/ UpdateBank(SerialCall, {Field("id", id) @@ Field("nama_bank", "a") : id \in BankIds})
    \/ DeleteBank(SerialCall, BankIds)
    \/ CreateLoanTransaction(SerialCall, CreateLoanInputs(BankIds, {1}, {1}, {FALSE}))
    \/ UpdateLoanTransaction(SerialCall, LoanUpdates(LoanIds, BankIds, {}))
    \/ \E id \in LoanIds : Serial /\ DeleteLoanTransaction(id)
    \/ CreatePayment(SerialCall, CreatePaymentInputs(BankIds, LoanIds, {1}))
    \/ UpdatePayment(SerialCall, PaymentUpdates(PaymentIds, BankIds, LoanIds))
    \/ \E id \in PaymentIds : Serial /\ DeletePayment(id)

SpecSerial == Init /\ [][NextSerial]_vars

(***************************************************************************)
(* SpecBank: the bank routes alone, over the categories and billing days.  *)
(***************************************************************************)
BankTypes == {"KARTU_KREDIT", "KTA"}

BankUpdates ==
    {Field("id", id) @@ c @@ d :
        id \in BankIds,
        c \in Opt("jenis_pinjaman", BankTypes),
        d \in Opt("tanggal_cetak_billing", {NULL, MaxDay})}

NextBank ==
    \/ \E input \in CreateBankInputs({MaxLimit}, BankTypes, {NULL, 1}, {1}) :
          CreateBank(input)
    \/ UpdateBank(FreeCall, BankUpdates)
    \/ DeleteBank(FreeCall, {1})

SpecBank == Init /\ [][NextBank]_vars

(***************************************************************************)
(* SpecLimit: one bank, its limit and the amounts of its transactions.  A  *)
(* credit-card bank bills and is due on day 1, the day of every            *)
(* transaction, so that its installment transactions fail the billing      *)
(* cycle check.                                                            *)
(***************************************************************************)
NextLimit ==
    \/ \E input \in CreateBankInputs(Limits, {"KARTU_KREDIT", "KTA"}, {NULL, 1}, {1}) :
          nextBankId = 1 /\ CreateBank(input)
    \/ UpdateBank(FreeCall, {Field("id", 1) @@ Field("limit_pinjaman", l) : l \in Limits})
    \/ CreateLoanTransaction(FreeCall, CreateLoanInputs(BankIds, {1}, Amounts, BOOLEAN))
    \/ \E c \in FreeCall : \E input \in LoanUpdates(LoanIds, {}, Amounts) :
          UpdateLoanTransaction_Select(c, input)
    \/ \E c \in Calls : UpdateLoanTransaction_Update(c)
    \/ \E id \in LoanIds : DeleteLoanTransaction(id)

SpecLimit == Init /\ [][NextLimit]_vars

(***************************************************************************)
(* SpecCycle: one bank of any category, transactions on any day.           *)
(***************************************************************************)
NextCycle ==
    \/ \E input \in CreateBankInputs({MaxLimit}, LoanTypes, {NULL} \cup Days, Days) :
          nextBankId = 1 /\ CreateBank(input)
    \/ CreateLoanTransaction(FreeCall, CreateLoanInputs(BankIds, Days, {1}, BOOLEAN))

SpecCycle == Init /\ [][NextCycle]_vars

(***************************************************************************)
(* SpecDue: banks due on any day, with large transactions paid off in      *)
(* small payments, as the due-date reports see them.                       *)
(***************************************************************************)
NextDue ==
    \/ \E input \in CreateBankInputs({MaxLimit}, {"KTA"}, {NULL}, Days) : CreateBank(input)
    \/ CreateLoanTransaction(FreeCall, CreateLoanInputs(BankIds, {1}, {MaxAmount}, {FALSE}))
    \/ CreatePayment(FreeCall, CreatePaymentInputs(BankIds, LoanIds, {1}))

SpecDue == Init /\ [][NextDue]_vars

(***************************************************************************)
(* SpecMonth: one bank whose transactions and payments fall on the first   *)
(* instant or the last millisecond of a month of 2024, or in January 2025. *)
(***************************************************************************)
\* a transaction is dated the first instant of the first month, the last
\* millisecond of the last one, or the first month of the next year
LoanDates ==
    {[year |-> 2024, month |-> 1, day |-> 1, ms |-> 0],
     [year |-> 2024, month |-> MaxMonth, day |-> DaysInMonth(2024, MaxMonth),
      ms |-> MsPerDay - 1],
     [year |-> 2025, month |-> 1, day |-> 1, ms |-> 0]}

\* a payment is dated the last millisecond of the first month or the first
\* instant of the last one
PaymentDates ==
    {[year |-> 2024, month |-> 1, day |-> DaysInMonth(2024, 1), ms |-> MsPerDay - 1],
     [year |-> 2024, month |-> MaxMonth, day |-> 1, ms |-> 0]}

\* the months asked for: those of the rows and the one after them
MonthlyReportInputs ==
    [year : {2024}, month : 1..(MaxMonth + 1)] \cup {[year |-> 2025, month |-> 1]}

NextMonth ==
    \/ \E input \in CreateBankInputs({MaxLimit}, {"KTA"}, {NULL}, {1}) :
          nextBankId = 1 /\ CreateBank(input)
    \/ CreateLoanTransaction(FreeCall,
           {[bank_id |-> 1, tanggal_transaksi |-> d, keterangan_transaksi |-> "t",
             jumlah_transaksi |-> 1, is_cicilan |-> FALSE] : d \in LoanDates})
    \/ CreatePayment(FreeCall,
           {[bank_id |-> 1, loan_transaction_id |-> 1, tanggal_pembayaran |-> d,
             jumlah_pembayaran |-> MaxAmount] : d \in PaymentDates})
    \/ GetMonthlyReport(FreeCall, MonthlyReportInputs)

SpecMonth == Init /\ [][NextMonth]_vars

(***************************************************************************)
(* SpecType: banks of two categories; a transaction may move to the other  *)
(* bank after it was paid, while the report of a category is made.         *)
(***************************************************************************)
TypeBanks ==
    {input \in CreateBankInputs({MaxLimit}, {"KARTU_KREDIT", "KTA"}, {NULL, 1}, {1}) :
        createBankInputSchema(input)}

NextType ==
    \/ \E input \in TypeBanks : CreateBank(input)
    \/ CreateLoanTransaction(FreeCall, CreateLoanInputs(BankIds, {1}, {1}, {FALSE}))
    \/ UpdateLoanTransaction(FreeCall, LoanUpdates({1}, BankIds, {}))
    \/ CreatePayment(FreeCall, CreatePaymentInputs(BankIds, {1}, {MaxAmount}))
    \/ GetLoanTypeReport(FreeCall, [jenis_pinjaman : {"KARTU_KREDIT", "KTA", "KUR"}])

SpecType == Init /\ [][NextType]_vars

(***************************************************************************)
(* SpecAll: a credit-card bank with a transaction and its payments, while  *)
(* the reports of all categories are made.                                 *)
(***************************************************************************)
NextAll ==
    \/ \E input \in TypeBanks :
          /\ input.jenis_pinjaman = "KARTU_KREDIT" /\ nextBankId = 1
          /\ CreateBank(input)
    \/ CreateLoanTransaction(FreeCall, CreateLoanInputs({1}, {1}, {MaxAmount}, {FALSE}))
    \/ CreatePayment(FreeCall, CreatePaymentInputs({1}, {1}, {MaxAmount}))
    \/ GetAllLoanTypeReports(FreeCall)

SpecAll == Init /\ [][NextAll]_vars

(***************************************************************************)
(* SpecFrame: partial updates of credit-card banks, their transactions and *)
(* payments; each field is left out or given a new value.                  *)
(***************************************************************************)
FrameBankUpdates ==
    {Field("id", 1) @@ c : c \in Opt("jenis_pinjaman", {"KUR"})}

FrameLoanUpdates ==
    {Field("id", 1) @@ b @@ c : b \in Opt("bank_id", {1}), c \in Opt("is_cicilan", {TRUE})}

FramePaymentUpdates ==
    {Field("id", 1) @@ t @@ a :
        t \in Opt("loan_transaction_id", {1}), a \in Opt("jumlah_pembayaran", {MaxAmount})}

NextFrame ==
    \/ \E input \in CreateBankInputs({MaxLimit}, {"KARTU_KREDIT"}, {1}, {1}) : CreateBank(input)
    \/ UpdateBank(FreeCall, FrameBankUpdates)
    \/ CreateLoanTransaction(FreeCall, CreateLoanInputs({1}, {1}, {1}, {FALSE}))
    \/ UpdateLoanTransaction(FreeCall, FrameLoanUpdates)
    \/ CreatePayment(FreeCall, CreatePaymentInputs({1}, LoanIds, {1}))
    \/ \E c \in FreeCall : \E input \in FramePaymentUpdates : UpdatePayment_Select(c, input)
    \/ \E c \in Calls : UpdatePayment_SelectLoan(c)
    \/ \E c \in Calls : UpdatePayment_Update(c)

SpecFrame == Init /\ [][NextFrame]_vars

(***************************************************************************)
(* SpecDebt: banks whose limit is never changed; transactions are created, *)
(* change their amount or their bank, and are deleted.                     *)
(***************************************************************************)
NextDebt ==
    \/ \E input \in CreateBankInputs({MaxLimit}, {"KTA"}, {NULL}, {1}) : CreateBank(input)
    \/ CreateLoanTransaction(FreeCall, CreateLoanInputs(BankIds, {1}, Amounts, {FALSE}))
    \/ UpdateLoanTransaction(FreeCall, LoanUpdates(LoanIds, BankIds, Amounts))
    \/ \E id \in LoanIds : DeleteLoanTransaction(id)

SpecDebt == Init /\ [][NextDebt]_vars

(***************************************************************************)
(* SpecRepay: one bank whose transactions are paid back; payments          *)
(* are created, change their amount and are deleted.                       *)
(***************************************************************************)
RepayUpdates ==
    {Field("id", id) @@ Field("jumlah_pembayaran", a) : id \in PaymentIds, a \in Amounts}

NextRepay ==
    \/ \E input \in CreateBankInputs({MaxLimit}, {"KTA"}, {NULL}, {1}) :
          nextBankId = 1 /\ CreateBank(input)
    \/ CreateLoanTransaction(FreeCall, CreateLoanInputs({1}, {1}, Amounts, {FALSE}))
    \/ CreatePayment(FreeCall, CreatePaymentInputs({1}, LoanIds, Amounts))
    \/ \E c \in FreeCall : \E input \in RepayUpdates : UpdatePayment_Select(c, input)
    \/ \E c \in Calls : UpdatePayment_SelectLoan(c)
    \/ \E c \in Calls : UpdatePayment_Update(c)
    \/ \E id \in PaymentIds : DeletePayment(id)

SpecRepay == Init /\ [][NextRepay]_vars

(***************************************************************************)
(* SpecWindow: banks due on the first or on the last day of the month,     *)
(* seen on the first or on the last day, with windows of up to a month.    *)
(***************************************************************************)
WindowDays == {1, LastDay}

WindowNows == [day : WindowDays, ms : {0, 1, MsPerDay - 1}]

\* the `days` of getUpcomingDueDates
Windows == {0, 1, LastDay - 2, LastDay - 1, LastDay}

NextWindow ==
    \/ \E input \in CreateBankInputs({MaxLimit}, {"KTA"}, {NULL}, WindowDays) :
          CreateBank(input)
    \/ CreateLoanTransaction(FreeCall, CreateLoanInputs(BankIds, {1}, {1}, {FALSE}))
    \/ CreatePayment(FreeCall, CreatePaymentInputs(BankIds, LoanIds, {1}))
    \/ \E id \in PaymentIds : DeletePayment(id)

SpecWindow == Init /\ [][NextWindow]_vars

(***************************************************************************)
(* SpecRace: createLoanTransaction requests in flight together against one *)
(* bank whose limit two large transactions exceed.                         *)
(***************************************************************************)
NextRace ==
    \/ \E input \in CreateBankInputs({MaxLimit}, {"KTA"}, {NULL}, {1}) :
          nextBankId = 1 /\ CreateBank(input)
    \/ CreateLoanTransaction(Calls, CreateLoanInputs(BankIds, {1}, Amounts, {FALSE}))

SpecRace == Init /\ [][NextRace]_vars

(***************************************************************************)
(* SpecOrphan: deleteBank in flight together with createLoanTransaction    *)
(* and createPayment for the banks; transactions and payments may be       *)
(* deleted in between.                                                     *)
(***************************************************************************)
NextOrphan ==
    \/ \E input \in CreateBankInputs({MaxLimit}, {"KTA"}, {NULL}, {1}) : CreateBank(input)
    \/ CreateLoanTransaction(FreeCall, CreateLoanInputs({1}, {1}, {1}, {FALSE}))
    \/ CreatePayment(FreeCall, CreatePaymentInputs({1}, {1}, {1}))
    \/ DeleteBank(FreeCall, BankIds)
    \/ DeleteLoanTransaction(1)
    \/ \E id \in PaymentIds : DeletePayment(id)

SpecOrphan == Init /\ [][NextOrphan]_vars

(***************************************************************************)
(* SpecCascade: one bank whose transactions are paid and deleted; a        *)
(* payment leaves the store only with its transaction.                     *)
(***************************************************************************)
NextCascade ==
    \/ \E input \in CreateBankInputs({MaxLimit}, {"KTA"}, {NULL}, {1}) :
          nextBankId = 1 /\ CreateBank(input)
    \/ CreateLoanTransaction(FreeCall, CreateLoanInputs({1}, {1}, {1}, {FALSE}))
    \/ CreatePayment(FreeCall, CreatePaymentInputs({1}, LoanIds, {1}))
    \/ \E id \in LoanIds : DeleteLoanTransaction(id)

SpecCascade == Init /\ [][NextCascade]_vars

(***************************************************************************)
(* SpecPay: payments of the transactions of two banks, created and         *)
(* changed while a transaction moves to the other bank or a payment is     *)
(* deleted.                                                                *)
(***************************************************************************)
NextPay ==
    \/ \E input \in CreateBankInputs({MaxLimit}, {"KTA"}, {NULL}, {1}) : CreateBank(input)
    \/ CreateLoanTransaction(FreeCall, CreateLoanInputs({1}, {1}, {1}, {FALSE}))
    \/ UpdateLoanTransaction(FreeCall, LoanUpdates({1}, {MaxBanks}, {}))
    \/ CreatePayment(FreeCall, CreatePaymentInputs(BankIds, LoanIds, {1}))
    \/ UpdatePayment(FreeCall, PaymentUpdates({1}, BankIds, LoanIds))
    \/ \E id \in PaymentIds : DeletePayment(id)

SpecPay == Init /\ [][NextPay]_vars

(***************************************************************************)
(* Properties.  What a handler does is stated for each of its store        *)
(* accesses: the condition it tests is that of the store at the access,    *)
(* and the row it writes is the row stored at the write.                   *)
(***************************************************************************)
tables == <<banks, loans, payments>>

LoansOf(bankId) == {t \in loans : t.bank_id = bankId}

PaymentsOf(bankId) == {p \in payments : p.bank_id = bankId}

\* in this step a request of handler op makes its first store access as
\* call c and goes on to the next
Begins(c, op) == calls[c].pc = "idle" /\ calls'[c].op = op

\* in this step a request of handler op makes its first store access and
\* ends with it: last' is its outcome
EndsAtOnce(op) == last'.op = op /\ last' # last /\ calls' = calls

\* in this step call c, in flight for handler op, makes its access pc
Access(c, op, pc) == calls[c].op = op /\ calls[c].pc = pc /\ calls'[c] # calls[c]

\* in this step the handler of call c ends: last' is its outcome
Ends(c) == calls[c].pc # "idle" /\ calls'[c].pc = "idle"

\* C1: every stored payment's bank_id equals the bank_id of the loan
\* transaction it references, in every reachable state.
C1_PaymentBankIsLoanBank ==
    \A p \in payments : \A t \in loans :
        t.id = p.loan_transaction_id => p.bank_id = t.bank_id

\* C2 as stated: a createLoanTransaction request that finds its bank fails
\* with the limit-exceeded error whenever the bank's transactions plus the
\* new amount exceed the limit, inserting nothing; at or under the limit the
\* limit check does not fail.
C2_AlwaysLimitExceeded ==
    [][/\ (EndsAtOnce("createLoanTransaction") /\ BankById(last'.input.bank_id) # {})
          => LET bank == TheRow(BankById(last'.input.bank_id))
                 newTotal == SumValues([x \in LoansOf(bank.id) |-> x.jumlah_transaksi])
                             + last'.input.jumlah_transaksi
             IN  /\ newTotal > bank.limit_pinjaman => last'.err = LimitExceeded
                 /\ newTotal <= bank.limit_pinjaman => last'.err # LimitExceeded
       /\ \A c \in Calls :
             Access(c, "createLoanTransaction", "selectTotal")
             => LET input == calls[c].input
                    newTotal == SumValues([x \in LoansOf(input.bank_id) |->
                                              x.jumlah_transaksi])
                                + input.jumlah_transaksi
                IN  IF newTotal > calls[c].locals.bankData.limit_pinjaman
                    THEN Ends(c) /\ last'.err = LimitExceeded /\ tables' = tables
                    ELSE ~Ends(c)]_vars

\* C2 amended: a request that finds its bank and gets as far as the limit
\* check fails with the limit-exceeded error whenever the bank's
\* transactions, as they are stored when the request sums them, plus the new
\* amount exceed the limit that the request read, inserting nothing; at or
\* under the limit (equality included) the limit check does not fail.  The
\* only requests that do not get as far are installment transactions of a
\* credit-card bank, refused by the billing-cycle check.
C2_LimitExceededUnlessRefusedBefore ==
    [][/\ (EndsAtOnce("createLoanTransaction") /\ BankById(last'.input.bank_id) # {})
          => LET bank == TheRow(BankById(last'.input.bank_id))
             IN  /\ last'.err \in {BeforeBillingDate, BillingNotConfigured}
                 /\ bank.jenis_pinjaman = "KARTU_KREDIT" /\ last'.input.is_cicilan
                 /\ tables' = tables
       /\ \A c \in Calls :
             Access(c, "createLoanTransaction", "selectTotal")
             => LET input == calls[c].input
                    newTotal == SumValues([x \in LoansOf(input.bank_id) |->
                                              x.jumlah_transaksi])
                                + input.jumlah_transaksi
                IN  IF newTotal > calls[c].locals.bankData.limit_pinjaman
                    THEN Ends(c) /\ last'.err = LimitExceeded /\ tables' = tables
                    ELSE ~Ends(c)]_vars

\* two transactions are stored and a third one was refused for the limit
C2_Witness ==
    /\ last.op = "createLoanTransaction" /\ last.err = LimitExceeded
    /\ \E b \in banks :
          /\ b.id = last.input.bank_id
          /\ Cardinality(LoansOf(b.id)) = 2
          /\ SumValues([x \in LoansOf(b.id) |-> x.jumlah_transaksi]) <= b.limit_pinjaman
          /\ SumValues([x \in LoansOf(b.id) |-> x.jumlah_transaksi]) + last.input.jumlah_transaksi
                > b.limit_pinjaman

\* C3: a stored bank has a billing day if and only if it is a credit card.
C3_BillingIffCreditCard ==
    \A b \in banks :
        (b.tanggal_cetak_billing # NULL) <=> (b.jenis_pinjaman = "KARTU_KREDIT")

\* C4: the due-date report has exactly one row per bank and the row's
\* outstanding amount is the sum of the bank's loan transactions minus the
\* sum of its payments.
C4_OutstandingIsLoansMinusPayments ==
    \A clock \in Clocks(Nows) :
        LET report == getDueDateReport(clock, Utc)
        IN  /\ \A r \in report : BankById(r.bank_id) # {}
            /\ \A b \in banks :
                  /\ Cardinality({r \in report : r.bank_id = b.id}) = 1
                  /\ \A r \in report :
                        r.bank_id = b.id
                        => r.outstanding_amount
                              = SumValues([x \in LoansOf(b.id) |-> x.jumlah_transaksi])
                                - SumValues([x \in PaymentsOf(b.id) |-> x.jumlah_pembayaran])

\* C5: for an installment transaction of a credit-card bank with billing day
\* B and due day D the billing-cycle check accepts day t exactly when t > B,
\* or t <= B and t > D, and otherwise the call fails with the
\* before-billing-date error and inserts nothing; for any other transaction
\* or bank the check never fails.  The check is made when the bank is read.
C5_BillingCycle ==
    [][/\ \A c \in Calls :
             Begins(c, "createLoanTransaction")
             => LET input == calls'[c].input
                    bank == TheRow(BankById(input.bank_id))
                    t == input.tanggal_transaksi.day
                    B == bank.tanggal_cetak_billing
                    D == bank.tanggal_jatuh_tempo
                IN  /\ BankById(input.bank_id) # {}
                    /\ (bank.jenis_pinjaman = "KARTU_KREDIT" /\ input.is_cicilan)
                          => (t > B \/ (t <= B /\ t > D))
       /\ (EndsAtOnce("createLoanTransaction") /\ BankById(last'.input.bank_id) # {})
          => LET input == last'.input
                 bank == TheRow(BankById(input.bank_id))
                 t == input.tanggal_transaksi.day
                 B == bank.tanggal_cetak_billing
                 D == bank.tanggal_jatuh_tempo
             IN  /\ bank.jenis_pinjaman = "KARTU_KREDIT" /\ input.is_cicilan
                 /\ ~(t > B \/ (t <= B /\ t > D))
                 /\ last'.err = BeforeBillingDate
                 /\ tables' = tables]_vars

\* an installment on or before the billing day but after the due day is stored
C5_Witness ==
    /\ last.op = "createLoanTransaction" /\ last.err = OK
    /\ last.input.is_cicilan
    /\ \E b \in banks :
          /\ b.id = last.input.bank_id
          /\ b.jenis_pinjaman = "KARTU_KREDIT"
          /\ last.input.tanggal_transaksi.day <= b.tanggal_cetak_billing
          /\ last.input.tanggal_transaksi.day > b.tanggal_jatuh_tempo
          /\ \E x \in loans : x.id = nextLoanId - 1 /\ x.bank_id = b.id /\ x.is_cicilan

\* C6: deleteBank on a stored bank fails and leaves every row when loan
\* transactions or payments reference the bank; the transactions are looked
\* at first and their number is reported, and when only payments reference
\* the bank the number of those payments is reported.
C6_DeleteBankRefused ==
    [][\A c \in Calls :
          /\ Access(c, "deleteBank", "selectTransactions")
             => IF LoansOf(calls[c].input.id) # {}
                THEN /\ Ends(c) /\ tables' = tables
                     /\ last'.err = "related loan transactions"
                     /\ last'.n = Cardinality(LoansOf(calls[c].input.id))
                ELSE ~Ends(c) /\ calls'[c].pc = "selectPayments"
          /\ Access(c, "deleteBank", "selectPayments")
             => IF PaymentsOf(calls[c].input.id) # {}
                THEN /\ Ends(c) /\ tables' = tables
                     /\ last'.err = "related payments"
                     /\ last'.n = Cardinality(PaymentsOf(calls[c].input.id))
                ELSE ~Ends(c)]_vars

\* a bank that only payments reference, two of them, was not deleted
C6_Witness ==
    /\ last.op = "deleteBank" /\ last.err = "related payments" /\ last.n = 2
    /\ BankById(last.input.id) # {}
    /\ LoansOf(last.input.id) = {}
    /\ Cardinality(PaymentsOf(last.input.id)) = 2

\* C7: deleteLoanTransaction on an existing transaction removes it and every
\* payment that references it and nothing else; on a missing id it fails
\* with the not-found error and changes nothing.
C7_DeleteLoanCascades ==
    [][(last'.op = "deleteLoanTransaction" /\ calls' = calls
        /\ (last' # last \/ tables' # tables))
       => IF LoanById(last'.input.id) # {}
          THEN /\ last'.err = OK
               /\ loans' = loans \ LoanById(last'.input.id)
               /\ payments' = {p \in payments : p.loan_transaction_id # last'.input.id}
               /\ banks' = banks
          ELSE /\ last'.err = "Loan transaction not found"
               /\ tables' = tables]_vars

\* two transactions were created and each was paid once; one of them was
\* deleted and its payment went with it (payments are removed by nothing
\* else here), the other transaction and its payment remain
C7_Witness ==
    /\ last.op = "deleteLoanTransaction" /\ last.err = OK
    /\ nextLoanId = 3 /\ nextPaymentId = 3
    /\ LoanById(last.input.id) = {}
    /\ Cardinality(loans) = 1 /\ Cardinality(payments) = 1
    /\ \A p \in payments : /\ LoanById(p.loan_transaction_id) # {}
                            /\ p.loan_transaction_id # last.input.id

\* C8: updateBank fails with the invalid-billing error whenever the
\* resulting category is not credit card and the request supplies a
\* non-null billing day, whether the request leaves the category out or
\* supplies a non-credit-card category: no such request gets past the
\* access that reads the bank.
C8_ExplicitBillingRefused ==
    [][\A c \in Calls :
          Begins(c, "updateBank")
          => LET input == calls'[c].input
             IN  ~(/\ Has(input, "tanggal_cetak_billing")
                   /\ input.tanggal_cetak_billing # NULL
                   /\ (IF Has(input, "jenis_pinjaman")
                       THEN input.jenis_pinjaman
                       ELSE TheRow(BankById(input.id)).jenis_pinjaman) # "KARTU_KREDIT")]_vars

\* C9: updateBank fails with the invalid-billing error when the request
\* changes a bank of another category to credit card and supplies no billing
\* day or null, and when it supplies null for a bank that is or stays a
\* credit card; a request that sets or keeps credit card on a credit-card
\* bank and leaves the billing day out passes and its update leaves the
\* stored billing day.
C9_CreditCardNeedsBilling ==
    [][/\ \A c \in Calls :
             /\ Begins(c, "updateBank")
                => LET input == calls'[c].input
                       current == TheRow(BankById(input.id))
                       category == IF Has(input, "jenis_pinjaman")
                                   THEN input.jenis_pinjaman ELSE current.jenis_pinjaman
                   IN  /\ ~(/\ current.jenis_pinjaman # "KARTU_KREDIT"
                            /\ category = "KARTU_KREDIT"
                            /\ (Has(input, "tanggal_cetak_billing")
                                   => input.tanggal_cetak_billing = NULL))
                       /\ ~(/\ category = "KARTU_KREDIT"
                            /\ Has(input, "tanggal_cetak_billing")
                            /\ input.tanggal_cetak_billing = NULL)
                       /\ ~Has(input, "tanggal_cetak_billing") /\ category = "KARTU_KREDIT"
                             => ~Has(calls'[c].locals.updateData, "tanggal_cetak_billing")
             /\ (Access(c, "updateBank", "update") /\ BankById(calls[c].input.id) # {}
                 /\ ~Has(calls[c].locals.updateData, "tanggal_cetak_billing"))
                => /\ last'.err = OK
                   /\ \E b \in banks' :
                         /\ b.id = calls[c].input.id
                         /\ b.tanggal_cetak_billing
                               = TheRow(BankById(calls[c].input.id)).tanggal_cetak_billing
       /\ (EndsAtOnce("updateBank") /\ BankById(last'.input.id) # {})
          => LET input == last'.input
                 current == TheRow(BankById(input.id))
             IN  /\ last'.err \in {BillingRequired, BillingOnlyKK}
                 /\ banks' = banks
                 /\ (/\ current.jenis_pinjaman = "KARTU_KREDIT"
                     /\ ~Has(input, "tanggal_cetak_billing"))
                       => FALSE]_vars

\* a bank of another category was refused the change to credit card because
\* the request carried no billing day
C9_Witness ==
    /\ last.op = "updateBank" /\ last.err = BillingRequired
    /\ Has(last.input, "jenis_pinjaman") /\ last.input.jenis_pinjaman = "KARTU_KREDIT"
    /\ ~Has(last.input, "tanggal_cetak_billing")
    /\ \E b \in banks : /\ b.id = last.input.id
                        /\ b.jenis_pinjaman = "KTA"
                        /\ b.tanggal_cetak_billing = NULL

\* C10: a request that changes a credit-card bank to another category
\* without mentioning the billing day is not refused, and its update stores a
\* null billing day with the new category.
C10_LeavingCreditCardClearsBilling ==
    [][/\ \A c \in Calls :
             /\ (/\ Begins(c, "updateBank")
                 /\ Has(calls'[c].input, "jenis_pinjaman")
                 /\ calls'[c].input.jenis_pinjaman # "KARTU_KREDIT")
                => /\ Has(calls'[c].locals.updateData, "tanggal_cetak_billing")
                   /\ calls'[c].locals.updateData.tanggal_cetak_billing = NULL
             /\ (/\ Access(c, "updateBank", "update")
                 /\ BankById(calls[c].input.id) # {}
                 /\ Has(calls[c].input, "jenis_pinjaman")
                 /\ calls[c].input.jenis_pinjaman # "KARTU_KREDIT"
                 /\ ~Has(calls[c].input, "tanggal_cetak_billing"))
                => /\ last'.err = OK
                   /\ \E b \in banks' : /\ b.id = calls[c].input.id
                                         /\ b.jenis_pinjaman = calls[c].input.jenis_pinjaman
                                         /\ b.tanggal_cetak_billing = NULL
       /\ (EndsAtOnce("updateBank") /\ BankById(last'.input.id) # {})
          => ~(/\ Has(last'.input, "jenis_pinjaman")
               /\ last'.input.jenis_pinjaman # "KARTU_KREDIT"
               /\ ~Has(last'.input, "tanggal_cetak_billing"))]_vars

\* a credit-card bank was changed to another category by a request without
\* billing day and now has none, next to a bank that is still a credit card
C10_Witness ==
    /\ last.op = "updateBank" /\ last.err = OK
    /\ Has(last.input, "jenis_pinjaman") /\ last.input.jenis_pinjaman = "KTA"
    /\ ~Has(last.input, "tanggal_cetak_billing")
    /\ \E b \in banks : /\ b.id = last.input.id
                        /\ b.jenis_pinjaman = "KTA"
                        /\ b.tanggal_cetak_billing = NULL
    /\ \E b \in banks : /\ b.id # last.input.id
                        /\ b.jenis_pinjaman = "KARTU_KREDIT"
                        /\ b.tanggal_cetak_billing # NULL

\* C11: read with one clock and one zone, getUpcomingDueDates(N) is the rows
\* of the due-date report with 0 <= days_until_due <= N and a positive
\* outstanding amount, getOverdueDates the rows with days_until_due < 0 and
\* a positive outstanding amount, and a bank that owes nothing (or less) is
\* in neither.
C11_PaidBankInNeitherList ==
    \A clock \in Clocks(Nows) : \A N \in Days :
        LET report == getDueDateReport(clock, Utc)
            upcoming == getUpcomingDueDates(N, clock, Utc)
            overdue == getOverdueDates(clock, Utc)
        IN  /\ upcoming = {r \in report : /\ 0 <= r.days_until_due
                                           /\ r.days_until_due <= N
                                           /\ r.outstanding_amount > 0}
            /\ overdue = {r \in report : r.days_until_due < 0 /\ r.outstanding_amount > 0}
            /\ \A b \in banks :
                  SumValues([x \in LoansOf(b.id) |-> x.jumlah_transaksi])
                  - SumValues([x \in PaymentsOf(b.id) |-> x.jumlah_pembayaran]) <= 0
                      => \A r \in upcoming \cup overdue : r.bank_id # b.id

\* C12: days_until_due of a bank due on day D, when the clock read for its
\* row shows day T of the month, is D - T: 0 on the due day, positive before
\* it, negative after it, always against day D of the current month.
C12_DaysUntilDue ==
    \A clock \in Clocks(Nows) : \A zone \in Zones(Days) :
        \A b \in banks :
            \E r \in getDueDateReport(clock, zone) :
                /\ r.bank_id = b.id
                /\ r.days_until_due = b.tanggal_jatuh_tempo - clock[b.id].day
                /\ (b.tanggal_jatuh_tempo = clock[b.id].day) => r.days_until_due = 0
                /\ (b.tanggal_jatuh_tempo > clock[b.id].day) => r.days_until_due > 0
                /\ (b.tanggal_jatuh_tempo < clock[b.id].day) => r.days_until_due < 0

\* C13: the monthly report of (year, month) sums and counts exactly the loan
\* transactions dated in that calendar month, first and last day included,
\* that the store holds when the request selects them, and exactly the
\* payments of the month that it holds when the request selects them;
\* net_debt is total_loans - total_payments, rows of other months add
\* nothing, and a month without rows gives zeros.
C13_MonthlyReport ==
    [][\A c \in Calls :
          /\ Begins(c, "getMonthlyReport")
             => LET input == calls'[c].input
                    ts == {t \in loans : /\ t.tanggal_transaksi.year = input.year
                                         /\ t.tanggal_transaksi.month = input.month}
                    read == calls'[c].locals.loanResults
                IN  /\ read.total_amount = SumValues([t \in ts |-> t.jumlah_transaksi])
                    /\ read.count = Cardinality(ts)
                    /\ ts = {} => read.total_amount = 0 /\ read.count = 0
          /\ Access(c, "getMonthlyReport", "selectPayments")
             => LET input == calls[c].input
                    ps == {p \in payments : /\ p.tanggal_pembayaran.year = input.year
                                            /\ p.tanggal_pembayaran.month = input.month}
                    read == calls[c].locals.loanResults
                    report == last'.report
                IN  /\ Ends(c) /\ last'.op = "getMonthlyReport" /\ last'.input = input
                    /\ report.year = input.year /\ report.month = input.month
                    /\ report.total_loans = read.total_amount
                    /\ report.transaction_count = read.count
                    /\ report.total_payments = SumValues([p \in ps |-> p.jumlah_pembayaran])
                    /\ report.payment_count = Cardinality(ps)
                    /\ report.net_debt = report.total_loans - report.total_payments
                    /\ ps = {} => report.total_payments = 0 /\ report.payment_count = 0
                    /\ tables' = tables]_vars

\* February 2024 holds a transaction of its last millisecond and a payment
\* of its first instant, January a transaction, and the report of February
\* that was returned last counts the two February rows only, with a
\* negative net debt
C13_Witness ==
    /\ \E t \in loans : /\ t.tanggal_transaksi.month = 2
                        /\ t.tanggal_transaksi.day = DaysInMonth(2024, 2)
                        /\ t.tanggal_transaksi.ms = MsPerDay - 1
    /\ \E t \in loans : t.tanggal_transaksi.month = 1 /\ t.tanggal_transaksi.year = 2024
    /\ \E p \in payments : /\ p.tanggal_pembayaran.month = 2
                           /\ p.tanggal_pembayaran.day = 1
                           /\ p.tanggal_pembayaran.ms = 0
    /\ last.op = "getMonthlyReport"
    /\ last.input = [year |-> 2024, month |-> 2]
    /\ last.report.transaction_count = 1
    /\ last.report.payment_count = 1
    /\ last.report.net_debt < 0

\* the loan transactions whose bank has category c
LoansOfType(c) ==
    {t \in loans : \E b \in banks : b.id = t.bank_id /\ b.jenis_pinjaman = c}

\* the payments whose bank has category c
PaymentsOfType(c) ==
    {p \in payments : \E b \in banks : b.id = p.bank_id /\ b.jenis_pinjaman = c}

\* C14: the report of category c sums and counts exactly the loan
\* transactions whose bank has category c when the request selects them and
\* the payments whose bank has category c when the request selects them,
\* whatever their dates; outstanding_amount is total_loans - total_payments,
\* and the numbers of a category without activity are 0.
C14_LoanTypeReport ==
    [][\A c \in Calls :
          /\ Begins(c, "getLoanTypeReport")
             => LET type == calls'[c].input.jenis_pinjaman
                    read == calls'[c].locals.loanSummary
                IN  /\ read.transaction_count = Cardinality(LoansOfType(type))
                    /\ LoansOfType(type) # {}
                          => read.total_loans
                                = SumValues([t \in LoansOfType(type) |-> t.jumlah_transaksi])
          /\ Access(c, "getLoanTypeReport", "selectPayments")
             => LET type == calls[c].input.jenis_pinjaman
                    read == calls[c].locals.loanSummary
                    report == last'.report
                IN  /\ Ends(c) /\ last'.op = "getLoanTypeReport"
                    /\ last'.input = calls[c].input
                    /\ report.jenis_pinjaman = type
                    /\ report.transaction_count = read.transaction_count
                    /\ report.total_loans
                          = (IF read.transaction_count = 0 THEN 0 ELSE read.total_loans)
                    /\ report.total_payments
                          = SumValues([p \in PaymentsOfType(type) |-> p.jumlah_pembayaran])
                    /\ report.payment_count = Cardinality(PaymentsOfType(type))
                    /\ report.outstanding_amount = report.total_loans - report.total_payments
                    /\ (read.transaction_count = 0 /\ PaymentsOfType(type) = {})
                          => /\ report.total_loans = 0 /\ report.transaction_count = 0
                             /\ report.total_payments = 0 /\ report.payment_count = 0
                             /\ report.outstanding_amount = 0
                    /\ tables' = tables]_vars

\* a paid transaction moved from a bank of one category to a bank of the
\* other: the report of the first category counts the payment and no
\* transaction, and the category owes less than nothing
C14_Witness ==
    /\ last.op = "getLoanTypeReport"
    /\ LoansOfType(last.input.jenis_pinjaman) = {}
    /\ Cardinality(PaymentsOfType(last.input.jenis_pinjaman)) = 1
    /\ Cardinality(loans) = 2
    /\ last.report.payment_count = 1
    /\ last.report.transaction_count = 0
    /\ last.report.outstanding_amount = - MaxAmount

C16_CreatePaymentChecks ==
    [][/\ EndsAtOnce("createPayment")
          => /\ BankById(last'.input.bank_id) = {}
             /\ last'.err = "Bank does not exist"
             /\ tables' = tables
       /\ \A c \in Calls :
             /\ Begins(c, "createPayment")
                => BankById(calls'[c].input.bank_id) # {} /\ tables' = tables
             /\ Access(c, "createPayment", "selectLoan")
                => LET input == calls[c].input
                   IN  /\ tables' = tables
                       /\ IF \/ LoanById(input.loan_transaction_id) = {}
                             \/ TheRow(LoanById(input.loan_transaction_id)).bank_id
                                   # input.bank_id
                          THEN /\ Ends(c)
                               /\ last'.err
                                     = "Loan transaction does not exist or does not belong to bank"
                          ELSE ~Ends(c) /\ calls'[c].pc = "insert"
             /\ Access(c, "createPayment", "insert")
                => LET input == calls[c].input
                   IN  /\ Ends(c) /\ last'.err = OK /\ last'.input = input
                       /\ banks' = banks /\ loans' = loans
                       /\ payments \subseteq payments'
                       /\ Cardinality(payments') = Cardinality(payments) + 1
                       /\ \A p \in payments' \ payments :
                             /\ p.bank_id = input.bank_id
                             /\ p.loan_transaction_id = input.loan_transaction_id
                             /\ p.jumlah_pembayaran = input.jumlah_pembayaran
                             /\ p.tanggal_pembayaran = input.tanggal_pembayaran]_vars

\* a second payment was stored for the same loan transaction
C16_Witness ==
    /\ last.op = "createPayment" /\ last.err = OK
    /\ \E t \in loans : t.id = last.input.loan_transaction_id /\ t.bank_id = last.input.bank_id
    /\ Cardinality({p \in payments :
                       p.loan_transaction_id = last.input.loan_transaction_id}) = 2

\* C17: updatePayment fails, leaving every row, when the payment does not
\* exist, when a supplied bank does not exist, or when the effective loan
\* transaction (supplied, else the one of the payment as read) does not exist
\* or does not belong to the effective bank (supplied, else the one of the
\* payment as read); a request that passes these checks has written nothing
\* before its update.
C17_UpdatePaymentChecks ==
    [][/\ EndsAtOnce("updatePayment")
          => /\ PaymentById(last'.input.id) = {}
             /\ last'.err = "Payment not found"
             /\ tables' = tables
       /\ \A c \in Calls :
             /\ Begins(c, "updatePayment")
                => /\ PaymentById(calls'[c].input.id) # {}
                   /\ calls'[c].locals.existingPayment = TheRow(PaymentById(calls'[c].input.id))
                   /\ tables' = tables
             /\ Access(c, "updatePayment", "selectBank")
                => /\ tables' = tables
                   /\ IF BankById(calls[c].input.bank_id) = {}
                      THEN Ends(c) /\ last'.err = "Bank not found"
                      ELSE ~Ends(c)
             /\ Access(c, "updatePayment", "selectLoan")
                => LET input == calls[c].input
                       stored == calls[c].locals.existingPayment
                       bank == IF Has(input, "bank_id")
                               THEN input.bank_id ELSE stored.bank_id
                       loan == IF Has(input, "loan_transaction_id")
                               THEN input.loan_transaction_id
                               ELSE stored.loan_transaction_id
                   IN  /\ tables' = tables
                       /\ IF \/ LoanById(loan) = {}
                             \/ TheRow(LoanById(loan)).bank_id # bank
                          THEN /\ Ends(c)
                               /\ last'.err = "Loan transaction not found for bank"
                          ELSE ~Ends(c) /\ calls'[c].pc = "update"]_vars

\* a request naming only another, existing bank was refused: the stored
\* loan transaction is not of that bank
C17_Witness ==
    /\ last.op = "updatePayment" /\ last.err = "Loan transaction not found for bank"
    /\ Has(last.input, "bank_id") /\ ~Has(last.input, "loan_transaction_id")
    /\ BankById(last.input.bank_id) # {}
    /\ \E p \in payments :
          /\ p.id = last.input.id
          /\ p.bank_id # last.input.bank_id
          /\ \E t \in loans : t.id = p.loan_transaction_id /\ t.bank_id = p.bank_id

\* C18: deleteBank fails with bank-not-found and changes nothing when the id
\* is not stored, deleted before or never given out; on a stored bank that
\* it finds without loan transactions and without payments it goes on to
\* remove that bank and nothing else, and succeeds.
C18_DeleteBankOnce ==
    [][/\ EndsAtOnce("deleteBank")
          => /\ BankById(last'.input.id) = {}
             /\ last'.err = "Bank not found"
             /\ tables' = tables
       /\ \A c \in Calls :
             /\ Begins(c, "deleteBank")
                => /\ BankById(calls'[c].input.id) # {}
                   /\ ~(/\ last.op = "deleteBank" /\ last.err = OK
                        /\ last.input = calls'[c].input)
                   /\ tables' = tables
             /\ (Access(c, "deleteBank", "selectTransactions") /\ LoansOf(calls[c].input.id) = {})
                => ~Ends(c) /\ tables' = tables
             /\ (Access(c, "deleteBank", "selectPayments") /\ PaymentsOf(calls[c].input.id) = {})
                => ~Ends(c) /\ calls'[c].pc = "delete" /\ tables' = tables
             /\ Access(c, "deleteBank", "delete")
                => /\ Ends(c) /\ last'.err = OK /\ last'.input = calls[c].input
                   /\ banks' = banks \ BankById(calls[c].input.id)
                   /\ loans' = loans /\ payments' = payments]_vars

\* a bank that was given out and deleted was asked to be deleted again,
\* the other bank is still stored
C18_Witness ==
    /\ last.op = "deleteBank" /\ last.err = "Bank not found"
    /\ last.input.id < nextBankId
    /\ BankById(last.input.id) = {}
    /\ Cardinality(banks) = 1

\* C19: deletePayment succeeds (rows deleted > 0) exactly when the payment
\* was stored, removes that payment only, and is no error otherwise; a
\* second delete of the same id does not succeed.
C19_DeletePayment ==
    [][(last'.op = "deletePayment" /\ calls' = calls
        /\ (last' # last \/ tables' # tables))
       => LET id == last'.input.id
          IN  /\ last'.err = OK
              /\ (last'.n > 0) <=> (PaymentById(id) # {})
              /\ payments' = {p \in payments : p.id # id}
              /\ banks' = banks /\ loans' = loans
              /\ PaymentById(id) = {} => tables' = tables
              /\ (last.op = "deletePayment" /\ last.input.id = id) => last'.n = 0]_vars

\* a payment that was given out and deleted was deleted again without
\* success, the other payment is still stored
C19_Witness ==
    /\ last.op = "deletePayment" /\ last.n = 0
    /\ last.input.id < nextPaymentId
    /\ Cardinality(payments) = 1

\* C20: the update of a successful updateBank, updateLoanTransaction or
\* updatePayment changes only the row with the given id and, of that row as
\* it is stored at the update, only the fields the request supplies, which
\* take the request's values; besides these only the billing day of a bank
\* may change, to null, when the bank is not a credit card after the update.
\* The id, created_at and every field left out keep their values, and every
\* other row of every table is unchanged.
C20_UpdateFrame ==
    [][\A c \in Calls :
          (/\ calls[c].op \in {"updateBank", "updateLoanTransaction", "updatePayment"}
           /\ Access(c, calls[c].op, "update")
           /\ last'.err = OK)
          => LET input == calls[c].input
                 op == calls[c].op
                 table == CASE op = "updateBank" -> banks
                            [] op = "updateLoanTransaction" -> loans
                            [] OTHER -> payments
                 after == CASE op = "updateBank" -> banks'
                            [] op = "updateLoanTransaction" -> loans'
                            [] OTHER -> payments'
                 old == {r \in table : r.id = input.id}
                 new == {r \in after : r.id = input.id}
                 forced == IF op = "updateBank" THEN {"tanggal_cetak_billing"} ELSE {}
             IN  /\ Ends(c) /\ last'.op = op /\ last'.input = input
                 /\ Cardinality(old) = 1 /\ Cardinality(new) = 1
                 /\ after \ new = table \ old
                 /\ op # "updateBank" => banks' = banks
                 /\ op # "updateLoanTransaction" => loans' = loans
                 /\ op # "updatePayment" => payments' = payments
                 /\ \A o \in old, n \in new :
                       /\ DOMAIN n = DOMAIN o
                       /\ n.id = o.id /\ n.created_at = o.created_at
                       /\ \A f \in DOMAIN o \ forced :
                             n[f] = IF f \in DOMAIN input THEN input[f] ELSE o[f]
                       /\ \A f \in forced :
                             n[f] # o[f]
                             => \/ f \in DOMAIN input
                                \/ n.jenis_pinjaman # "KARTU_KREDIT" /\ n[f] = NULL]_vars

\* a transaction that was made an installment has been updated again by a
\* request that leaves is_cicilan out, while a second transaction is stored
C20_Witness ==
    /\ last.op = "updateLoanTransaction" /\ last.err = OK
    /\ ~Has(last.input, "is_cicilan")
    /\ \E t \in loans : t.id = last.input.id /\ t.is_cicilan
    /\ Cardinality(loans) = 2

\* the handlers that write
Mutating ==
    {"createLoanTransaction", "createPayment", "updateBank", "updateLoanTransaction",
     "updatePayment", "deleteBank", "deleteLoanTransaction"}

\* C21: a mutating operation that ends with an error has left the banks, the
\* loan transactions and the payments as they were and has given out no id:
\* the step in which it ends with an error writes nothing, and a step of a
\* request that writes is the request's last and ends without error.
C21_ErrorWritesNothing ==
    [][/\ (/\ last'.op \in Mutating /\ last'.err # OK
           /\ (last' # last \/ \E c \in Calls : Ends(c)))
          => /\ tables' = tables
             /\ <<nextBankId, nextLoanId, nextPaymentId>>'
                   = <<nextBankId, nextLoanId, nextPaymentId>>
       /\ \A c \in Calls :
             (calls'[c] # calls[c] /\ tables' # tables)
             => Ends(c) /\ last'.err = OK /\ last'.op = calls[c].op]_vars

\* a stored payment was to move to a bank that does not own its transaction,
\* the request ended with an error
C21_Witness ==
    /\ last.op = "updatePayment" /\ last.err = "Loan transaction not found for bank"
    /\ Has(last.input, "bank_id")
    /\ \E p \in payments : p.id = last.input.id /\ p.bank_id # last.input.bank_id

\* C22: a createLoanTransaction request that inserts was within the limit
\* against the sum it read; when no other request has changed the bank's sum
\* between its read and its insert (as when the requests run one after the
\* other) the bank's sum is within the limit after the insert, and otherwise
\* the insert happens all the same, on the stale sum.
C22_StaleSum ==
    [][\A c \in Calls :
          Access(c, "createLoanTransaction", "insert")
          => LET call == calls[c]
                 bankId == call.input.bank_id
                 after == SumValues([t \in {x \in loans' : x.bank_id = bankId} |->
                                        t.jumlah_transaksi])
             IN  /\ call.locals.currentTotalLoans + call.input.jumlah_transaksi
                       <= call.locals.bankData.limit_pinjaman
                 /\ Ends(c) /\ last'.err = OK
                 /\ after = currentTotalLoans(bankId) + call.input.jumlah_transaksi
                 /\ currentTotalLoans(bankId) = call.locals.currentTotalLoans
                       => after <= call.locals.bankData.limit_pinjaman]_vars

\* two requests have inserted, each within the limit against the sum it
\* read, and the sum of the bank's transactions is over its limit
C22_Witness ==
    /\ last.op = "createLoanTransaction" /\ last.err = OK
    /\ \E b \in banks :
          /\ b.id = last.input.bank_id
          /\ Cardinality(LoansOf(b.id)) = 2
          /\ \A t \in LoansOf(b.id) : t.jumlah_transaksi <= b.limit_pinjaman
          /\ SumValues([x \in LoansOf(b.id) |-> x.jumlah_transaksi]) > b.limit_pinjaman

\* C23 as stated: an updateBank request that supplies only a positive
\* limit_pinjaman is accepted on a stored bank whatever the sum of the bank's
\* transactions, and its update alters no transaction; and every
\* createLoanTransaction request that reads the bank afterwards fails the
\* limit check while the sum of the bank's transactions plus the new amount
\* is over the limit.
C23_AlwaysFailsLimitCheck ==
    [][/\ (EndsAtOnce("updateBank") /\ DOMAIN last'.input = {"id", "limit_pinjaman"})
          => BankById(last'.input.id) = {}
       /\ (EndsAtOnce("createLoanTransaction") /\ BankById(last'.input.bank_id) # {})
          => LET bank == TheRow(BankById(last'.input.bank_id))
             IN  SumValues([x \in LoansOf(bank.id) |-> x.jumlah_transaksi])
                 + last'.input.jumlah_transaksi > bank.limit_pinjaman
                 => last'.err = LimitExceeded
       /\ \A c \in Calls :
             /\ (/\ Access(c, "updateBank", "update")
                 /\ DOMAIN calls[c].input = {"id", "limit_pinjaman"}
                 /\ BankById(calls[c].input.id) # {})
                => /\ last'.err = OK
                   /\ loans' = loans /\ payments' = payments
             /\ Begins(c, "createLoanTransaction")
                => calls'[c].locals.bankData = TheRow(BankById(calls'[c].input.bank_id))
             /\ (/\ Access(c, "createLoanTransaction", "selectTotal")
                 /\ SumValues([x \in LoansOf(calls[c].input.bank_id) |-> x.jumlah_transaksi])
                    + calls[c].input.jumlah_transaksi
                       > calls[c].locals.bankData.limit_pinjaman)
                => Ends(c) /\ last'.err = LimitExceeded /\ loans' = loans]_vars

\* C23 amended: an updateBank request that supplies only a positive
\* limit_pinjaman is accepted on a stored bank whatever the sum of the bank's
\* transactions, and its update stores the limit and alters no transaction;
\* a createLoanTransaction request reads the limit that is stored when it
\* reads the bank, and while the sum of the bank's transactions plus the new
\* amount is over that limit the request is refused and inserts nothing, by
\* the limit check whenever it gets as far as the limit check and by the
\* billing-cycle check otherwise.
C23_LoweredLimit ==
    [][/\ (EndsAtOnce("updateBank") /\ DOMAIN last'.input = {"id", "limit_pinjaman"})
          => BankById(last'.input.id) = {}
       /\ (EndsAtOnce("createLoanTransaction") /\ BankById(last'.input.bank_id) # {})
          => /\ last'.err = billingCycleCheck(TheRow(BankById(last'.input.bank_id)),
                                              last'.input)
             /\ last'.err # OK
             /\ loans' = loans
       /\ \A c \in Calls :
             /\ (/\ Access(c, "updateBank", "update")
                 /\ DOMAIN calls[c].input = {"id", "limit_pinjaman"}
                 /\ BankById(calls[c].input.id) # {})
                => /\ last'.err = OK
                   /\ loans' = loans /\ payments' = payments
                   /\ \E b \in banks' : /\ b.id = calls[c].input.id
                                         /\ b.limit_pinjaman = calls[c].input.limit_pinjaman
             /\ Begins(c, "createLoanTransaction")
                => calls'[c].locals.bankData = TheRow(BankById(calls'[c].input.bank_id))
             /\ (/\ Access(c, "createLoanTransaction", "selectTotal")
                 /\ SumValues([x \in LoansOf(calls[c].input.bank_id) |-> x.jumlah_transaksi])
                    + calls[c].input.jumlah_transaksi
                       > calls[c].locals.bankData.limit_pinjaman)
                => Ends(c) /\ last'.err = LimitExceeded /\ loans' = loans]_vars

\* the limit of a bank was lowered under the sum of its transactions
C23_Witness ==
    /\ last.op = "updateBank" /\ last.err = OK
    /\ \E b \in banks :
          /\ b.id = last.input.id
          /\ b.limit_pinjaman = last.input.limit_pinjaman
          /\ SumValues([x \in LoansOf(b.id) |-> x.jumlah_transaksi]) > b.limit_pinjaman

\* C24: with limits that never change, the sum of the amounts of a bank's
\* loan transactions is at most the bank's limit in every reachable state.
C24_DebtWithinLimit ==
    \A b \in banks :
        SumValues([x \in LoansOf(b.id) |-> x.jumlah_transaksi]) <= b.limit_pinjaman

\* C25: with one request run at a time, every loan transaction's bank_id
\* names a stored bank, and every payment's bank_id and loan_transaction_id
\* name a stored bank and a stored loan transaction.
C25_NoDanglingReference ==
    /\ \A t \in loans : BankById(t.bank_id) # {}
    /\ \A p \in payments : /\ BankById(p.bank_id) # {}
                            /\ LoanById(p.loan_transaction_id) # {}

\* a bank that has lost its only transaction to another bank was to be
\* deleted, and was kept for the payment that still names it
C25_Witness ==
    /\ last.op = "deleteBank" /\ last.err = "related payments"
    /\ LoansOf(last.input.id) = {}
    /\ \E p \in payments : /\ p.bank_id = last.input.id
                            /\ \E t \in loans : /\ t.id = p.loan_transaction_id
                                                 /\ t.bank_id # p.bank_id

\* C27: for every category, the outstanding_amount of the getLoanTypeReport
\* of a state (both its selects read the state) is the sum of the
\* outstanding_amount of the getDueDateReport rows of the banks of that
\* category; and the four category reports add up to the sum over all rows
\* of getDueDateReport.
C27_TypeReportIsSumOfDueRows ==
    \A clock \in Clocks(Nows) :
        LET rows == getDueDateReport(clock, Utc)
            ofType(c) == {r \in rows : r.jenis_pinjaman = c}
            typeReport(c) == loanTypeReport([jenis_pinjaman |-> c],
                                            loanSummary([jenis_pinjaman |-> c]),
                                            paymentSummary([jenis_pinjaman |-> c]))
        IN  /\ \A c \in LoanTypes :
                  typeReport(c).outstanding_amount
                  = SumValues([r \in ofType(c) |-> r.outstanding_amount])
            /\ SumValues([i \in DOMAIN loanTypeOptions |->
                              typeReport(loanTypeOptions[i]).outstanding_amount])
               = SumValues([r \in rows |-> r.outstanding_amount])

\* C28: the limit check of createLoanTransaction refuses the request exactly
\* when the sum of the bank's loan transactions plus the new amount is over
\* the limit the request read, whatever was paid; and a step that creates,
\* updates or deletes a payment changes the outcome of the limit check of no
\* request.
C28_PaymentsFreeNoLimit ==
    [][/\ \A c \in Calls :
             Access(c, "createLoanTransaction", "selectTotal")
             => LET total == SumValues([x \in LoansOf(calls[c].input.bank_id) |->
                                           x.jumlah_transaksi])
                IN  (Ends(c) /\ last'.err = LimitExceeded)
                    <=> (total + calls[c].input.jumlah_transaksi
                            > calls[c].locals.bankData.limit_pinjaman)
       /\ payments' # payments
          => \A b \in banks :
                \A input \in CreateLoanInputs({b.id}, {1}, Amounts, {FALSE}) :
                   limitExceeded(b, input)' = limitExceeded(b, input)]_vars

\* a transaction was refused for the limit although, with what was paid back
\* to the bank taken off, it would have been within the limit
C28_Witness ==
    /\ last.op = "createLoanTransaction" /\ last.err = LimitExceeded
    /\ \E b \in banks :
          /\ b.id = last.input.bank_id
          /\ SumValues([x \in LoansOf(b.id) |-> x.jumlah_transaksi])
             - SumValues([x \in PaymentsOf(b.id) |-> x.jumlah_pembayaran])
             + last.input.jumlah_transaksi <= b.limit_pinjaman

\* C29: createLoanTransaction checks the bank, then the billing cycle of an
\* installment, then the limit: for a bank that is not stored the error is
\* bank-not-found; a request that the billing-cycle rule refuses ends with
\* the error of the billing-cycle check when it has read the bank, also when
\* it is over the limit; the limit-exceeded error is given only at the limit
\* check, to a request that has passed the billing-cycle check.
C29_CheckOrder ==
    [][/\ EndsAtOnce("createLoanTransaction")
          => IF BankById(last'.input.bank_id) = {}
             THEN last'.err = "Bank not found"
             ELSE /\ last'.err = billingCycleCheck(TheRow(BankById(last'.input.bank_id)),
                                                   last'.input)
                  /\ last'.err # OK
       /\ \A c \in Calls :
             /\ Begins(c, "createLoanTransaction")
                => /\ BankById(calls'[c].input.bank_id) # {}
                   /\ billingCycleCheck(TheRow(BankById(calls'[c].input.bank_id)),
                                        calls'[c].input) = OK
                   /\ calls'[c].pc = "selectTotal"
             /\ (calls[c].op = "createLoanTransaction" /\ Ends(c)
                 /\ last'.err = LimitExceeded)
                => calls[c].pc = "selectTotal"]_vars

\* an installment that is over the limit was refused for its date
C29_Witness ==
    /\ last.op = "createLoanTransaction" /\ last.err = BeforeBillingDate
    /\ \E b \in banks :
          /\ b.id = last.input.bank_id
          /\ SumValues([x \in LoansOf(b.id) |-> x.jumlah_transaksi])
             + last.input.jumlah_transaksi > b.limit_pinjaman

\* C30: read with one clock and one zone, for any window of N >= 0 days, no
\* bank is both in getUpcomingDueDates(N) and in getOverdueDates; and for
\* N >= 30 every bank whose report row has outstanding_amount > 0 is in
\* exactly one of the two.
C30_UpcomingOrOverdue ==
    \A clock \in Clocks(WindowNows) : \A zone \in Zones(WindowDays) : \A days \in Windows :
        LET upcoming == {r.bank_id : r \in getUpcomingDueDates(days, clock, zone)}
            overdue == {r.bank_id : r \in getOverdueDates(clock, zone)}
        IN  /\ upcoming \cap overdue = {}
            /\ days >= 30
                  => \A r \in getDueDateReport(clock, zone) :
                        r.outstanding_amount > 0
                        => (r.bank_id \in upcoming) # (r.bank_id \in overdue)

\* C26: a creating request that has read its bank (and, for a payment, the
\* loan transaction) inserts its row without reading again, and a deleteBank
\* that has found no dependent row deletes without reading again; both
\* succeed.  A reference to a bank that is not stored arises only from such
\* a step: an insert after the bank it names was deleted, or a delete after
\* a row naming the bank was inserted.
C26_NoRereadBeforeWrite ==
    [][/\ \A c \in Calls :
             (calls[c].pc \in {"insert", "delete"} /\ calls'[c].pc = "idle")
             => /\ last'.err = OK /\ last'.input = calls[c].input
                /\ calls[c].op = "createLoanTransaction"
                      => \E t \in loans' \ loans : t.bank_id = calls[c].input.bank_id
                /\ calls[c].op = "createPayment"
                      => \E p \in payments' \ payments : p.bank_id = calls[c].input.bank_id
                /\ calls[c].op = "deleteBank"
                      => banks' = {b \in banks : b.id # calls[c].input.id}
       /\ (/\ \A r \in loans \cup payments : BankById(r.bank_id) # {}
           /\ \E r \in loans' \cup payments' : BankById(r.bank_id)' = {})
          => \E c \in Calls :
                /\ calls[c].pc \in {"insert", "delete"} /\ calls'[c].pc = "idle"
                /\ calls[c].op \in {"createLoanTransaction", "createPayment"}
                      => BankById(calls[c].input.bank_id) = {}
                /\ calls[c].op = "deleteBank"
                      => \E r \in loans \cup payments : r.bank_id = calls[c].input.id]_vars

\* the bank was deleted, and a loan transaction and a payment that were
\* inserted by requests in flight with the delete name it
C26_Witness ==
    /\ banks = {} /\ nextBankId > 1
    /\ \E t \in loans : BankById(t.bank_id) = {}
    /\ \E p \in payments : BankById(p.bank_id) = {}

====
